---- MODULE Spec2Model ----
(***************************************************************************)
(* A model of the go-rst reStructuredText parser: the nine-slot token      *)
(* buffer, the section-level registries, and the token-driven parser with  *)
(* its section, paragraph, comment and list handlers.                      *)
(***************************************************************************)
EXTENDS Integers, Sequences, FiniteSets, TLC

VARIABLES
    input,      \* the token stream the lexer delivers, in emission order
    lexpos,     \* number of tokens the lexer has delivered so far
    token,      \* Parser.token / Tree.token: the buffer, slots 0..8
    pc,         \* control state of the run
    last,       \* token-buffer harness: record of the last operation
    onlyNext,   \* token-buffer harness: only next() has been called so far
    nNext,      \* token-buffer harness: number of next(1) steps while onlyNext
    nBackup,    \* token-buffer harness: number of backup() calls so far
    impl,       \* which version of the code in the repository is running
    sectionLevels,  \* Tree.sectionLevels: the registry of section levels
    nodes,      \* the nodes built so far; nodes[i].parent is 0 for the root list
    nodeTarget, \* Tree.nodeTarget: the node whose list receives the next node
    adds,       \* registry harness: the sections handed to Add so far
    Messages,   \* Tree.Messages: the flat list of system messages (node ids)
    lastSectionNode,    \* sectionLevels.lastSectionNode (0 for nil)
    indents,    \* Tree.indents: the indent queue of the bullet lists
    stack,      \* the handler loops that are running, innermost last
    iter,       \* parity of the number of iterations of the innermost loop
    leveled,    \* message types harness: the types leveled so far, with their levels
    cursor,     \* cursor harness: the character cursor of the lexer
    tbuf        \* slice harness: the tokenBuffer over a slice

bufVars == <<input, lexpos, token, last, onlyNext, nNext, nBackup>>
regVars == <<impl, sectionLevels, nodes, nodeTarget, adds>>
parVars == <<Messages, lastSectionNode, indents, stack, iter>>
auxVars == <<leveled, cursor, tbuf>>
vars == <<bufVars, pc, regVars, parVars, auxVars>>

(***************************************************************************)
(* Tokens                                                                  *)
(***************************************************************************)

\* The middle of the token buffer (the current slot).
zed == 4

\* len(p.token): the buffer is a [9]*item array.
BufLen == 9

\* A nil *item.  It has every field, so that reading one in the model is
\* defined; each place where the code dereferences an item checks for Nil
\* first and panics.
Nil == [Type |-> "Nil", Text |-> "", Length |-> 0, Line |-> 0, StartPosition |-> 0]

\* The element of a one-element set.  An operator that uses its parser or
\* buffer argument more than once takes it through Val, so that the argument
\* is evaluated once, as the call of a Go function evaluates it.
Val(S) == CHOOSE r \in S : TRUE

Item(ty, text, len, line, pos) ==
    [Type |-> ty, Text |-> text, Length |-> len, Line |-> line, StartPosition |-> pos]

\* The empty buffer of a fresh parser.
EmptyBuffer == [x \in 0..(BufLen - 1) |-> Nil]

\* lexer.nextItem(): the next token of the stream, nil once the stream is
\* exhausted (the items channel is closed after EOF).
NextItem(lp) == IF lp < Len(input) THEN input[lp + 1] ELSE Nil

\* Number of tokens delivered after one more nextItem() call.
Pulled(lp) == IF lp < Len(input) THEN lp + 1 ELSE lp

(***************************************************************************)
(* Token buffer operations.  A buffer value b is a record                  *)
(*   [token |-> slots, lexpos |-> tokens delivered, st |-> "ok" | "panic"] *)
(* so that the handlers can chain the operations.                          *)
(***************************************************************************)

Buf(t, lp) == [token |-> t, lexpos |-> lp, st |-> "ok"]

\* next() with the shift loop started at x = 1: slot 0 is never written.
next1From1(b) ==
    LET s == [x \in 0..(BufLen - 1) |->
                 IF x = 0 THEN b.token[0]
                 ELSE IF x < BufLen - 1 THEN b.token[x + 1] ELSE Nil]
    IN  IF s[zed] = Nil
        THEN [b EXCEPT !.token = [s EXCEPT ![zed] = NextItem(b.lexpos)],
                       !.lexpos = Pulled(b.lexpos)]
        ELSE [b EXCEPT !.token = s]

\* One pass of next(): shift left, then refill the current slot if empty.
next1(b0) ==
    Val({
        LET s == [x \in 0..(BufLen - 1) |-> IF x < BufLen - 1 THEN b.token[x + 1] ELSE Nil]
        IN  IF s[zed] = Nil
            THEN [b EXCEPT !.token = [s EXCEPT ![zed] = NextItem(b.lexpos)],
                           !.lexpos = Pulled(b.lexpos)]
            ELSE [b EXCEPT !.token = s]
    : b \in {b0}})

RECURSIVE next(_, _)
next(b0, pos) ==
    Val({
        IF pos = 0 \/ b.st # "ok" THEN b ELSE next(next1(b), pos - 1)
    : b \in {b0}})

\* backup() with the copy loop run upwards: every token is pushed off the end.
backupAscending(b) ==
    IF b.st # "ok" THEN b ELSE [b EXCEPT !.token = [x \in 0..(BufLen - 1) |-> Nil]]

\* backup() that leaves the buffer as it is.
backupNothing(b) == b

\* backup(): token[0] is cleared first, so slot 1 receives nil, and the
\* token in the last slot is overwritten.
backup(b0) ==
    Val({
        IF b.st # "ok" THEN b
        ELSE [b EXCEPT !.token = [x \in 0..(BufLen - 1) |->
                                     IF x >= 2 THEN b.token[x - 1] ELSE Nil]]
    : b \in {b0}})

\* peekBack(pos): t.token[zed-pos]; an index below 0 is a run-time panic.
peekBackPanics(pos) == zed - pos < 0 \/ zed - pos > BufLen - 1

peekBack(b, pos) == IF peekBackPanics(pos) THEN Nil ELSE b.token[zed - pos]

\* peek(pos): fill the forward slots zed+1..zed+pos that are empty.
RECURSIVE peekFrom(_, _, _)
peekFrom(b0, i, pos) ==
    Val({
        IF i > pos \/ b.st # "ok" THEN b
        ELSE IF zed + i > BufLen - 1 THEN [b EXCEPT !.st = "panic"]
        ELSE IF b.token[zed + i] # Nil THEN peekFrom(b, i + 1, pos)
        ELSE peekFrom([b EXCEPT !.token[zed + i] = NextItem(b.lexpos),
                                !.lexpos = Pulled(b.lexpos)], i + 1, pos)
    : b \in {b0}})

\* peek() that asks the lexer for every forward slot, filled or not.
RECURSIVE peekAlwaysFrom(_, _, _)
peekAlwaysFrom(b, i, pos) ==
    IF i > pos \/ b.st # "ok" THEN b
    ELSE IF zed + i > BufLen - 1 THEN [b EXCEPT !.st = "panic"]
    ELSE peekAlwaysFrom([b EXCEPT !.token[zed + i] = NextItem(b.lexpos),
                                  !.lexpos = Pulled(b.lexpos)], i + 1, pos)

peekAlways(b, pos) == peekAlwaysFrom(b, 1, pos)

peek(b, pos) == peekFrom(b, 1, pos)

\* The item peek(pos) returns: nItem after the loop.
peekItem(b0, pos) ==
    Val({
        LET p == peek(b, pos) IN IF p.st # "ok" THEN Nil ELSE p.token[zed + pos]
    : b \in {b0}})

\* peekSkip(iSkip): peek(1), peek(2), ... until the item is not of type iSkip.
\* nItem.Type on a nil item panics.
RECURSIVE peekSkipFrom(_, _, _)
peekSkipFrom(b0, iSkip, count) ==
    Val({
        LET p == peek(b, count)
        IN  IF p.st # "ok" THEN p
            ELSE IF p.token[zed + count] = Nil THEN [p EXCEPT !.st = "panic"]
            ELSE IF p.token[zed + count].Type # iSkip THEN p
            ELSE peekSkipFrom(p, iSkip, count + 1)
    : b \in {b0}})

peekSkip(b, iSkip) == peekSkipFrom(b, iSkip, 1)

RECURSIVE peekSkipCount(_, _, _)
peekSkipCount(b0, iSkip, count) ==
    Val({
        LET p == peek(b, count)
        IN  IF p.st # "ok" \/ p.token[zed + count] = Nil THEN count
            ELSE IF p.token[zed + count].Type # iSkip THEN count
            ELSE peekSkipCount(p, iSkip, count + 1)
    : b \in {b0}})

\* The item peekSkip returns.
peekSkipItem(b0, iSkip) ==
    Val({
        LET p == peekSkip(b, iSkip)
        IN  IF p.st # "ok" THEN Nil ELSE p.token[zed + peekSkipCount(b, iSkip, 1)]
    : b \in {b0}})

\* peekBackTo(item): the nearest back slot holding a token of that type.
RECURSIVE peekBackToFrom(_, _, _)
peekBackToFrom(b0, ty, i) ==
    Val({
        IF i < 0 THEN Nil
        ELSE IF b.token[i] # Nil /\ b.token[i].Type = ty THEN b.token[i]
        ELSE peekBackToFrom(b, ty, i - 1)
    : b \in {b0}})

peekBackTo(b, ty) == peekBackToFrom(b, ty, zed - 1)

\* clearTokens(begin, end)
clearTokens(b0, begin, end) ==
    Val({
        [b EXCEPT !.token = [x \in 0..(BufLen - 1) |->
                                IF begin <= x /\ x <= end THEN Nil ELSE b.token[x]]]
    : b \in {b0}})

(***************************************************************************)
(* Token-buffer harness: the buffer operations applied in any order to a   *)
(* fresh parser over a bounded token stream.                               *)
(***************************************************************************)

\* Longest token stream of the harness, EOF not counted.
MaxBufTokens == 5
\* Largest number of next(1) steps counted from the fresh parser.
MaxNext == 7
\* Largest argument the harness passes to peek.
MaxPeek == 4
\* Largest argument the harness passes to peekBack.
MaxBack == 5
\* Largest number of backup() calls in one run of the harness.
MaxBackups == 2

\* Streams Text, Space^s, Text, ..., EOF; Line numbers the tokens.
BufStream(n, s) ==
    [i \in 1..(n + 1) |->
        IF i = n + 1 THEN Item("EOF", "", 0, i, 1)
        ELSE IF 2 <= i /\ i <= 1 + s THEN Item("Space", " ", 1, i, 1)
        ELSE Item("Text", "a", 1, i, 1)]

BufStreams ==
    {BufStream(n, s) : n \in {0, 2, MaxBufTokens}, s \in {0, 1, MaxBufTokens - 1}}

\* An operation record: the call, the item it returned, and the current slot
\* and the lexer position before the call.
NoOp == [op |-> "none", arg |-> 0, ret |-> Nil, zed0 |-> Nil, lp0 |-> 0]

Cur == Buf(token, lexpos)

\* A parser that has not started: no messages, no open handler.
HandlersIdle ==
    /\ Messages = <<>>
    /\ lastSectionNode = 0
    /\ indents = <<>>
    /\ stack = <<>>
    /\ iter = 0

\* The harnesses of the other packages are not used.
AuxIdle == leveled = <<>> /\ cursor = <<>> /\ tbuf = <<>>

ParIdle == HandlersIdle /\ AuxIdle

\* The registry and the tree are not used by the token-buffer harness.
RegIdle ==
    /\ impl = "none"
    /\ sectionLevels = <<>>
    /\ nodes = <<>>
    /\ nodeTarget = 0
    /\ adds = <<>>
    /\ ParIdle

InitBuf ==
    /\ input \in BufStreams
    /\ lexpos = 0
    /\ token = EmptyBuffer
    /\ pc = "buf"
    /\ last = NoOp
    /\ onlyNext = TRUE
    /\ nNext = 0
    /\ nBackup = 0
    /\ RegIdle

Apply(op, arg, b, ret) ==
    /\ token' = b.token
    /\ lexpos' = b.lexpos
    /\ pc' = IF b.st = "ok" THEN "buf" ELSE "panic"
    /\ last' = [op |-> op, arg |-> arg, ret |-> ret, zed0 |-> token[zed], lp0 |-> lexpos]
    /\ UNCHANGED <<input, regVars, parVars, auxVars>>

BufNext ==
    /\ pc = "buf"
    /\ \E pos \in 1..2 :
        /\ onlyNext => nNext + pos <= MaxNext
        /\ Apply("next", pos, next(Cur, pos), next(Cur, pos).token[zed])
        /\ nNext' = IF onlyNext THEN nNext + pos ELSE 0
    /\ UNCHANGED <<onlyNext, nBackup>>

BufPeek ==
    /\ pc = "buf"
    /\ \E pos \in 1..MaxPeek :
        Apply("peek", pos, peek(Cur, pos), peekItem(Cur, pos))
    /\ onlyNext' = FALSE
    /\ nNext' = 0
    /\ UNCHANGED nBackup

BufBackup ==
    /\ pc = "buf"
    /\ nBackup < MaxBackups
    /\ Apply("backup", 0, backup(Cur), Nil)
    /\ onlyNext' = FALSE
    /\ nNext' = 0
    /\ nBackup' = nBackup + 1

BufPeekBack ==
    /\ pc = "buf"
    /\ \E pos \in 1..MaxBack :
        Apply("peekBack", pos,
              [Cur EXCEPT !.st = IF peekBackPanics(pos) THEN "panic" ELSE "ok"],
              peekBack(Cur, pos))
    /\ UNCHANGED <<onlyNext, nNext, nBackup>>

BufPeekSkip ==
    /\ pc = "buf"
    /\ Apply("peekSkip", 0, peekSkip(Cur, "Space"), peekSkipItem(Cur, "Space"))
    /\ onlyNext' = FALSE
    /\ nNext' = 0
    /\ UNCHANGED nBackup

NextBuf == BufNext \/ BufPeek \/ BufBackup \/ BufPeekBack \/ BufPeekSkip

SpecBuf == InitBuf /\ [][NextBuf]_vars

(***************************************************************************)
(* The section-level registries                                            *)
(***************************************************************************)

\* sectionLevels.Find of parse/parse.go: the 1-based index of the first entry
\* with the rune, -1 when there is none.  The overline field is not compared.
RECURSIVE FindFrom(_, _, _)
FindFrom(s, adornChar, i) ==
    IF i > Len(s) THEN -1
    ELSE IF s[i].char = adornChar THEN i
    ELSE FindFrom(s, adornChar, i + 1)

Find(s, adornChar) == FindFrom(s, adornChar, 1)

\* sectionLevels.Add of parse/parse.go: the level found, or a new entry
\* appended and the new length.
Add(s, adornChar, overline, length) ==
    LET lvl == Find(s, adornChar)
    IN  IF lvl > 0 THEN [levels |-> s, level |-> lvl]
        ELSE [levels |-> Append(s, [char |-> adornChar, overline |-> overline,
                                     length |-> length]),
              level |-> Len(s) + 1]

\* A SectionNode as newSection leaves it: Level is the zero value.
SectionNode(rune, overline, title) ==
    [type |-> "Section", Rune |-> rune, OverLine |-> overline, Title |-> title,
     Level |-> 0, parent |-> -1]

\* sectionLevels.FindByRune of the Tree: the first registered section with
\* the underline rune (0 for nil).  s holds indices into ns.
RECURSIVE FindByRuneFrom(_, _, _, _)
FindByRuneFrom(s, ns, adornChar, i) ==
    IF i > Len(s) THEN 0
    ELSE IF ns[s[i]].Rune = adornChar THEN s[i]
    ELSE FindByRuneFrom(s, ns, adornChar, i + 1)

FindByRune(s, ns, adornChar) == FindByRuneFrom(s, ns, adornChar, 1)

\* The level sectionLevels.Add of the Tree gives the section: the level of
\* the section found when the titles differ, the level it came with when
\* they are equal, len+1 when no section has the rune.
AddLevel(s, ns, section) ==
    LET sec == FindByRune(s, ns, section.Rune)
    IN  IF sec # 0
        THEN IF ns[sec].Title # section.Title THEN ns[sec].Level ELSE section.Level
        ELSE Len(s) + 1

(***************************************************************************)
(* The registries driven by a sequence of sections                         *)
(***************************************************************************)

Runes == {"=", "-", "~"}
Titles == {"A", "B"}

\* Largest number of sections handed to a registry.
MaxAdds == 4

BufIdle ==
    /\ input = <<>>
    /\ lexpos = 0
    /\ token = EmptyBuffer
    /\ last = NoOp
    /\ onlyNext = TRUE
    /\ nNext = 0
    /\ nBackup = 0

InitLevels ==
    /\ BufIdle
    /\ pc = "lvl"
    /\ impl \in {"levels", "add", "tree"}
    /\ sectionLevels = <<>>
    /\ nodes = <<>>
    /\ nodeTarget = 0
    /\ adds = <<>>
    /\ ParIdle

\* parse/parse.go: one call of Add(adornChar, overline, length).
LevelsAdd ==
    /\ pc = "lvl" /\ impl = "levels"
    /\ Len(adds) < MaxAdds
    /\ \E r \in Runes, o \in BOOLEAN :
        LET a == Add(sectionLevels, r, o, 3)
        IN  /\ sectionLevels' = a.levels
            /\ adds' = Append(adds, [rune |-> r, overline |-> o, title |-> "A",
                                     level |-> a.level])
    /\ UNCHANGED <<bufVars, pc, impl, nodes, nodeTarget, parVars, auxVars>>

\* The Tree's registry on its own, as its tests call it: Add(section) sets
\* the section's Level and always appends the section to the registry.
TreeAdd ==
    /\ pc = "lvl" /\ impl = "add"
    /\ Len(adds) < MaxAdds
    /\ \E r \in Runes, o \in BOOLEAN, ti \in Titles :
        LET new == SectionNode(r, o, ti)
            lvl == AddLevel(sectionLevels, nodes, new)
        IN  /\ sectionLevels' = Append(sectionLevels, Len(nodes) + 1)
            /\ nodes' = Append(nodes, [new EXCEPT !.Level = lvl])
            /\ adds' = Append(adds, [rune |-> r, overline |-> o, title |-> ti,
                                     level |-> lvl])
    /\ UNCHANGED <<bufVars, pc, impl, nodeTarget, parVars, auxVars>>

\* The Tree of part_001: section() registers the new section and points
\* nodeTarget at sectionLevels[Level-2] when a section with the rune was
\* found; parse() then appends the section to nodeTarget and makes the
\* section's own list the target.
TreeSection ==
    /\ pc = "lvl" /\ impl = "tree"
    /\ Len(adds) < MaxAdds
    /\ \E r \in Runes, o \in BOOLEAN, ti \in Titles :
        LET new == SectionNode(r, o, ti)
            id == Len(nodes) + 1
            eSec == FindByRune(sectionLevels, nodes, r)
            lvl == AddLevel(sectionLevels, nodes, new)
            reg == Append(sectionLevels, id)
            panics == eSec # 0 /\ (lvl - 2 < 0 \/ lvl - 2 >= Len(reg))
            target == IF eSec # 0 /\ ~panics THEN reg[lvl - 1] ELSE nodeTarget
        IN  /\ sectionLevels' = reg
            /\ adds' = Append(adds, [rune |-> r, overline |-> o, title |-> ti,
                                     level |-> lvl])
            /\ IF panics
               THEN /\ pc' = "panic"
                    /\ nodes' = Append(nodes, [new EXCEPT !.Level = lvl])
                    /\ UNCHANGED nodeTarget
               ELSE /\ pc' = pc
                    /\ nodes' = Append(nodes, [new EXCEPT !.Level = lvl, !.parent = target])
                    /\ nodeTarget' = id
    /\ UNCHANGED <<bufVars, impl, parVars, auxVars>>

NextLevels == LevelsAdd \/ TreeAdd \/ TreeSection

SpecLevels == InitLevels /\ [][NextLevels]_vars

(***************************************************************************)
(* The parser.  A parser value P is a buffer value extended with the tree: *)
(*   nodes, nodeTarget, Messages, levels and lastSec (the registry),       *)
(*   indents, version ("Tree" or "Parser") and ret (the node a call made). *)
(* st is "ok", "panic" (a run-time panic) or "exit" (os.Exit).             *)
(***************************************************************************)

Panic(P) == [P EXCEPT !.st = "panic"]

\* A node that is in no list yet (parent = -1); ord is its place in the list
\* it is appended to.
NewNode(type, line, text) ==
    [type |-> type, parent |-> -1, ord |-> 0, Line |-> line, Text |-> text,
     Length |-> Len(text), msg |-> "", Level |-> 0, Rune |-> "", OverLine |-> FALSE,
     Title |-> "", TitleLength |-> 0, IndentLength |-> 0, OverLength |-> 0,
     UnderLength |-> 0]

\* Allocate a node; P.ret is its id.
Create(P0, node) ==
    Val({
        IF P.st # "ok" THEN P
        ELSE [P EXCEPT !.nodes = Append(@, node), !.ret = Len(P.nodes) + 1]
    : P \in {P0}})

\* Number of nodes in the list of node `list` (0: the root list).
ListLen(ns, list) == Cardinality({j \in 1..Len(ns) : ns[j].parent = list})

\* NodeList.append(n): n = 0 is a nil Node, whose NodeType() call panics.
AppendTo(P0, list, n) ==
    Val({
        IF P.st # "ok" THEN P
        ELSE IF n = 0 THEN Panic(P)
        ELSE [P EXCEPT !.nodes[n].parent = list,
                       !.nodes[n].ord = ListLen(P.nodes, list) + 1]
    : P \in {P0}})

\* t.nodeTarget.append(n)
AppendNode(P, n) == AppendTo(P, P.nodeTarget, n)

\* Create a node and append it to the target list.
Emit(P0, node) ==
    Val({
        LET c == Create(P, node) IN AppendNode(c, c.ret)
    : P \in {P0}})

SetTarget(P0, list) ==
    Val({
        IF P.st # "ok" THEN P ELSE [P EXCEPT !.nodeTarget = list]
    : P \in {P0}})

\* Retag that stores the literal but leaves the type of the token.
RetagKeepsType(P0, text, line, pos) ==
    Val({
        [P EXCEPT !.token[zed] = [Type |-> P.token[zed].Type, Text |-> text,
                                  Length |-> Len(text), Line |-> line,
                                  StartPosition |-> pos]]
    : P \in {P0}})

\* Re-tag the current token as a Text token carrying the literal.
Retag(P0, text, line, pos) ==
    Val({
        [P EXCEPT !.token[zed] = [Type |-> "Text", Text |-> text, Length |-> Len(text),
                                  Line |-> line, StartPosition |-> pos]]
    : P \in {P0}})

\* The literal block and line of a system message, and the parser after the
\* buffer changes the message type makes.  lit = "" means no literal block.
SystemMessageBody(P0, err) ==
    Val({
        LET t == P.token
            none == [P |-> P, lit |-> "", line |-> t[zed].Line]
            bad == [P |-> Panic(P), lit |-> "", line |-> 0]
        IN  CASE err = "infoOverlineTooShortForTitle" ->
                    IF t[zed - 1] = Nil THEN bad
                    ELSE LET three == t[zed - 2] # Nil
                             inText == IF three
                                       THEN t[zed - 2].Text \o "\n" \o t[zed - 1].Text \o "\n" \o t[zed].Text
                                       ELSE t[zed - 1].Text \o "\n" \o t[zed].Text
                             line == IF three THEN t[zed - 2].Line ELSE t[zed - 1].Line
                             c == clearTokens(P, zed - 2, zed - 1)
                         IN  [P |-> backup(Retag(c, inText, line, t[zed].StartPosition)),
                              lit |-> "", line |-> line]
              [] err = "infoUnexpectedTitleOverlineOrTransition" ->
                    LET oLin == peekBackTo(P, "SectionAdornment")
                        titl == peekBackTo(P, "Title")
                    IN  IF oLin = Nil \/ titl = Nil THEN bad
                        ELSE LET inText == oLin.Text \o "\n" \o titl.Text \o "\n" \o t[zed].Text
                                 c == clearTokens(P, zed - 4, zed - 1)
                             IN  [P |-> backup(Retag(c, inText, oLin.Line, oLin.StartPosition)),
                                  lit |-> "", line |-> oLin.Line]
              [] err = "infoUnderlineTooShortForTitle" ->
                    IF t[zed - 1] = Nil THEN bad
                    ELSE LET inText == t[zed - 1].Text \o "\n" \o t[zed].Text
                             c == clearTokens(P, zed - 1, zed - 1)
                         IN  [P |-> backup(Retag(c, inText, t[zed - 1].Line, t[zed].StartPosition)),
                              lit |-> "", line |-> t[zed - 1].Line]
              [] err \in {"warningShortOverline", "severeOverlineUnderlineMismatch"} ->
                    IF t[zed - 2] = Nil THEN bad
                    ELSE LET back == IF t[zed - 2].Type = "Space" THEN zed - 3 ELSE zed - 2
                             indent == IF t[zed - 2].Type = "Space" THEN t[zed - 2].Text ELSE ""
                         IN  IF t[back] = Nil \/ t[zed - 1] = Nil THEN bad
                             ELSE [P |-> P,
                                   lit |-> t[back].Text \o "\n" \o indent \o t[zed - 1].Text
                                               \o "\n" \o t[zed].Text,
                                   line |-> t[back].Line]
              [] err \in {"warningShortUnderline", "severeUnexpectedSectionTitle"} ->
                    IF t[zed - 1] = Nil THEN bad
                    ELSE LET back == IF t[zed - 1].Type = "Space" THEN zed - 2 ELSE zed - 1
                         IN  IF t[back] = Nil THEN bad
                             ELSE [P |-> P, lit |-> t[back].Text \o "\n" \o t[zed].Text,
                                   line |-> t[zed - 1].Line]
              [] err = "warningExplicitMarkupWithUnIndent" ->
                    IF t[zed + 1] = Nil THEN bad
                    ELSE [P |-> P, lit |-> "", line |-> t[zed + 1].Line]
              [] err = "errorInvalidSectionOrTransitionMarker" ->
                    IF t[zed - 1] = Nil THEN bad
                    ELSE [P |-> P, lit |-> t[zed - 1].Text \o "\n" \o t[zed].Text,
                          line |-> t[zed - 1].Line]
              [] err \in {"severeIncompleteSectionTitle",
                          "severeMissingMatchingUnderlineForOverline"} ->
                    IF t[zed - 2] = Nil \/ t[zed - 1] = Nil THEN bad
                    ELSE [P |-> P,
                          lit |-> t[zed - 2].Text \o "\n" \o t[zed - 1].Text \o t[zed].Text,
                          line |-> t[zed - 2].Line]
              [] err = "severeUnexpectedSectionTitleOrTransition" ->
                    [P |-> P, lit |-> t[zed].Text, line |-> t[zed].Line]
              [] err = "severeTitleLevelInconsistent" ->
                    IF t[zed - 2] = Nil THEN bad
                    ELSE IF t[zed - 2].Type = "SectionAdornment"
                    THEN IF t[zed - 1] = Nil THEN bad
                         ELSE [P |-> P,
                               lit |-> t[zed - 2].Text \o "\n" \o t[zed - 1].Text \o "\n" \o t[zed].Text,
                               line |-> t[zed - 2].Line]
                    ELSE IF t[zed - 1] = Nil THEN bad
                         ELSE [P |-> P, lit |-> t[zed - 1].Text \o "\n" \o t[zed].Text,
                               line |-> t[zed - 1].Line]
              [] OTHER -> none
    : P \in {P0}})

\* systemMessage(err): build the SystemMessage node with its message text and
\* its literal block, register it in Messages and return it (P.ret).  The
\* node is in no list of the tree yet.
systemMessage(P0, err) ==
    Val({
        IF P.st # "ok" THEN P
        ELSE IF P.token[zed] = Nil THEN Panic(P)
        ELSE
            LET body == SystemMessageBody(P, err)
                Q == body.P
                sm == Len(Q.nodes) + 1
                s == [NewNode("SystemMessage", body.line, "") EXCEPT !.msg = err]
                msg == [NewNode("Text", 0, err) EXCEPT !.parent = sm, !.ord = 1]
                lb == [NewNode("LiteralBlock", 0, body.lit) EXCEPT !.parent = sm, !.ord = 2]
            IN  IF Q.st # "ok" THEN Q
                ELSE [Q EXCEPT !.nodes = IF body.lit # ""
                                         THEN Q.nodes \o <<s, msg, lb>>
                                         ELSE Q.nodes \o <<s, msg>>,
                               !.Messages = Append(@, sm),
                               !.ret = sm]
    : P \in {P0}})

(***************************************************************************)
(* Sections.  A handler asks for a system message with Request: the        *)
(* message is built by systemMessage when the handler returns, which is    *)
(* where the code calls it (the call is the last thing a handler does to   *)
(* the buffer and the last node it makes).  smTo is the list the message   *)
(* is appended to, -1 when the code appends it to none.                    *)
(***************************************************************************)

Request(P0, err, to) ==
    Val({
        IF P.st # "ok" THEN P ELSE [P EXCEPT !.sm = err, !.smTo = to]
    : P \in {P0}})

\* The pending system message, if any.
Finish(P0) ==
    Val({
        IF P.st # "ok" \/ P.sm = "" THEN P
        ELSE LET q == systemMessage(P, P.sm)
             IN  IF P.smTo = -1 THEN q ELSE AppendTo(q, P.smTo, q.ret)
    : P \in {P0}})

\* A diagnostic of the section handler.  checkSection and its helpers append
\* the message to nodeTarget; Tree.section only returns it.
sectionMessage(P0, err) ==
    Val({
        Request(P, err, IF P.version = "Parser" THEN P.nodeTarget ELSE -1)
    : P \in {P0}})

\* Position of the (rune, overline) style in the registry, 0 when absent.
RECURSIVE StyleIndexFrom(_, _, _, _)
StyleIndexFrom(levels, rune, overline, i) ==
    IF i > Len(levels) THEN 0
    ELSE IF levels[i].rune = rune /\ levels[i].overline = overline THEN i
    ELSE StyleIndexFrom(levels, rune, overline, i + 1)

StyleIndex(levels, rune, overline) == StyleIndexFrom(levels, rune, overline, 1)

\* Level of the last section registered (0 before the first).
LastLevel(P) == IF P.lastSec = 0 THEN 0 ELSE P.nodes[P.lastSec].Level

\* The registry refuses a new style when a level already exists below the
\* last section: severeTitleLevelInconsistent.
LevelInconsistent(P0, rune, overline) ==
    Val({
        /\ StyleIndex(P.levels, rune, overline) = 0
        /\ LastLevel(P) < Len(P.levels)
    : P \in {P0}})

\* sectionLevels.Add(sec) on success: the level of the style, new styles
\* taking the next level; sec becomes lastSectionNode.
RegistryAdd(P0, sec) ==
    Val({
        LET n == P.nodes[sec]
            found == StyleIndex(P.levels, n.Rune, n.OverLine)
            lvl == IF found # 0 THEN found ELSE Len(P.levels) + 1
        IN  [P EXCEPT !.levels = IF found # 0 THEN @
                                 ELSE Append(@, [rune |-> n.Rune, overline |-> n.OverLine]),
                      !.nodes[sec].Level = lvl,
                      !.lastSec = sec]
    : P \in {P0}})

\* sectionLevels.LastSectionByLevel(level): the most recent section
\* registered with the level (0 for nil).
LastSectionOfLevel(P0, level) ==
    Val({
        LET c == {j \in 1..Len(P.nodes) :
                     P.nodes[j].type = "Section" /\ P.nodes[j].Level = level}
        IN  IF c = {} THEN 0 ELSE CHOOSE j \in c : \A m \in c : m <= j
    : P \in {P0}})

\* checkSectionLevel: register the section and move nodeTarget; on an
\* inconsistent level the Parser appends the message to the last section and
\* makes that section the target, the Tree returns the message.  ret = 0
\* when the section was registered.
checkSectionLevel(P0, sec) ==
    Val({
        IF P.st # "ok" THEN P
        ELSE IF LevelInconsistent(P, P.nodes[sec].Rune, P.nodes[sec].OverLine)
        THEN IF P.version = "Parser"
             THEN IF P.lastSec = 0 THEN Panic(P)
                  ELSE Request(SetTarget(P, P.lastSec), "severeTitleLevelInconsistent", P.lastSec)
             ELSE Request(P, "severeTitleLevelInconsistent", -1)
        ELSE LET r == RegistryAdd(P, sec)
                 lvl == r.nodes[sec].Level
                 lSec == LastSectionOfLevel(r, lvl - 1)
             IN  IF lvl = 1 THEN [SetTarget(r, 0) EXCEPT !.ret = 0]
                 ELSE IF lSec = 0 THEN Panic(r)
                 ELSE [SetTarget(r, lSec) EXCEPT !.ret = 0]
    : P \in {P0}})

\* checkSectionLengths without the check of the underline.
checkSectionLengthsNoUnderline(P0, sec, overAdorn, indent, title, underAdorn) ==
    Val({
        LET oLen == IF indent # Nil THEN indent.Length + title.Length ELSE title.Length
        IN  IF P.st # "ok" THEN P
            ELSE IF overAdorn # Nil /\ oLen > overAdorn.Length
            THEN Request(P, "warningShortOverline", sec)
            ELSE P
    : P \in {P0}})

\* checkSectionLengths: a short overline or underline puts a warning in the
\* section's own list.
checkSectionLengths(P0, sec, overAdorn, indent, title, underAdorn) ==
    Val({
        LET oLen == IF indent # Nil THEN indent.Length + title.Length ELSE title.Length
        IN  IF P.st # "ok" THEN P
            ELSE IF overAdorn # Nil /\ oLen > overAdorn.Length
            THEN Request(P, "warningShortOverline", sec)
            ELSE IF overAdorn = Nil /\ title.Length # underAdorn.Length
            THEN Request(P, "warningShortUnderline", sec)
            ELSE P
    : P \in {P0}})

\* The section handler once title and adornments are known: the mismatch
\* check, newSection, the registry, the length checks and, in the Parser,
\* the append of the section, which becomes the target.
sectionBuild(P0, overAdorn, indent, title, underAdorn) ==
    Val({
        IF P.st # "ok" THEN P
        ELSE IF overAdorn # Nil /\ underAdorn = Nil THEN Panic(P)
        ELSE IF overAdorn # Nil /\ overAdorn.Text # underAdorn.Text
        THEN sectionMessage(P, "severeOverlineUnderlineMismatch")
        ELSE IF title = Nil \/ underAdorn = Nil \/ underAdorn.Text = "" THEN Panic(P)
        ELSE
            LET c == Create(P, [NewNode("Section", title.Line, "") EXCEPT
                                   !.Title = title.Text,
                                   !.Rune = SubSeq(underAdorn.Text, 1, 1),
                                   !.OverLine = (overAdorn # Nil /\ overAdorn.Text # ""),
                                   !.TitleLength = title.Length,
                                   !.IndentLength = IF indent # Nil THEN indent.Length ELSE 0,
                                   !.OverLength = IF overAdorn # Nil /\ overAdorn.Text # ""
                                                  THEN overAdorn.Length ELSE 0,
                                   !.UnderLength = underAdorn.Length])
                sec == c.ret
                l == checkSectionLevel(c, sec)
                w == checkSectionLengths(l, sec, overAdorn, indent, title, underAdorn)
            IN  IF l.st # "ok" \/ l.sm # "" THEN l
                ELSE IF P.version = "Parser"
                THEN [SetTarget(AppendNode(w, sec), sec) EXCEPT !.ret = sec]
                ELSE [w EXCEPT !.ret = sec]
    : P \in {P0}})

\* The section handler up to its token loop: what it decides and the buffer
\* it leaves.  kind = "msg": it returns the message err; "loop": the
\* overline is accepted and the loop over the title tokens starts; "build":
\* a section without overline is built from title and the current token.
sectionEnter(P0) ==
    Val({
        LET i == P.token[zed]
            pBack == peekBack(P, 1)
            f == peekSkip(P, "Space")
            pFor == peekSkipItem(P, "Space")
            tZedLen == i.Length
            n2 == next(f, 2)
            p1 == peek(n2, 1)
            msg(q, err) == [P |-> q, kind |-> "msg", err |-> err, title |-> Nil]
            build(title) == [P |-> f, kind |-> "build", err |-> "", title |-> title]
        IN  IF f.st # "ok" THEN msg(f, "")
            ELSE IF pFor # Nil /\ pFor.Type = "Title" THEN
                IF tZedLen < 3 /\ tZedLen # pFor.Length THEN
                    IF peekBack(n2, 1) # Nil /\ peekBack(n2, 1).Type = "Space"
                    THEN msg(next(n2, 2), "infoUnexpectedTitleOverlineOrTransition")
                    ELSE msg(n2, "infoOverlineTooShortForTitle")
                ELSE IF pBack # Nil /\ pBack.Type = "Space"
                THEN msg(f, "severeUnexpectedSectionTitleOrTransition")
                ELSE [P |-> next(f, 1), kind |-> "loop", err |-> "", title |-> Nil]
            ELSE IF pBack # Nil /\ pBack.Type \in {"Title", "Space"} THEN
                IF pBack.Type = "Space" /\ peekBack(f, 2) # Nil /\ peekBack(f, 2).Type = "Title"
                THEN msg(f, "severeUnexpectedSectionTitle")
                ELSE IF pBack.Type # "Space" /\ tZedLen < 3 /\ tZedLen # pBack.Length
                THEN msg(f, "infoUnderlineTooShortForTitle")
                ELSE build(pBack)
            ELSE IF pFor # Nil /\ pFor.Type = "Text" THEN
                IF tZedLen < 3 /\ tZedLen # pFor.Length
                THEN msg(backup(n2), "infoOverlineTooShortForTitle")
                ELSE IF p1.st = "ok" /\ p1.token[zed + 1] # Nil
                        /\ p1.token[zed + 1].Type = "BlankLine"
                THEN msg(p1, "severeMissingMatchingUnderlineForOverline")
                ELSE msg(p1, "severeIncompleteSectionTitle")
            ELSE IF pFor # Nil /\ pFor.Type = "SectionAdornment"
            THEN msg(next(f, 1), "errorInvalidSectionOrTransitionMarker")
            ELSE IF pFor # Nil /\ pFor.Type = "EOF"
            THEN msg(f, "errorInvalidSectionOrTransitionMarker")
            ELSE build(Nil)
    : P \in {P0}})

(***************************************************************************)
(* Body elements.  A handler with a loop returns with the loop's frame in  *)
(* P.push; the loop then runs one iteration per step.                      *)
(***************************************************************************)

Frame(loop) ==
    [loop |-> loop, a |-> 0, b |-> 0, over |-> Nil, ind |-> Nil, tit |-> Nil, slot |-> 0]

Push(P0, frame) ==
    Val({
        IF P.st # "ok" THEN P ELSE [P EXCEPT !.push = Append(@, frame)]
    : P \in {P0}})

InlineOpen ==
    [InlineEmphasisOpen |-> "InlineEmphasis", InlineStrongOpen |-> "InlineStrong",
     InlineLiteralOpen |-> "InlineLiteral",
     InlineInterpretedTextRoleOpen |-> "InlineInterpretedTextRole"]

\* inlineEmphasis, inlineStrong, inlineLiteral, inlineInterpretedTextRole:
\* the token after the open mark becomes the node, the close mark is skipped.
inline(P0, type) ==
    Val({
        LET a == next(P, 1)
            i == a.token[zed]
        IN  IF a.st # "ok" THEN a
            ELSE IF i = Nil THEN Panic(a)
            ELSE next(Emit(a, NewNode(type, i.Line, i.Text)), 1)
    : P \in {P0}})

\* inlineInterpretedText: as above, with a role that may follow.
inlineInterpretedText(P0) ==
    Val({
        LET a == next(P, 1)
            i == a.token[zed]
            b == Emit(a, NewNode("InlineInterpretedText", i.Line, i.Text))
            n == b.ret
            d == peek(next(b, 1), 1)
            e == next(d, 2)
            r == Create(e, NewNode("InlineInterpretedTextRole", e.token[zed].Line, e.token[zed].Text))
        IN  IF a.st # "ok" THEN a
            ELSE IF i = Nil THEN Panic(a)
            ELSE IF d.st # "ok" THEN d
            ELSE IF d.token[zed + 1] = Nil THEN Panic(d)
            ELSE IF d.token[zed + 1].Type # "InlineInterpretedTextRoleOpen" THEN d
            ELSE IF e.token[zed] = Nil THEN Panic(e)
            ELSE next(AppendTo(r, n, r.ret), 1)
    : P \in {P0}})

\* newComment(i)
CommentNode(i) == NewNode("Comment", i.Line, i.Text)

\* comment(i): an empty comment, a comment mark without a space after it, a
\* one-line comment, a comment without the blank line after it, or the
\* start of a comment block (the loop over its lines).
comment(P0) ==
    Val({
        LET i == P.token[zed]
            p1 == peek(P, 1)
            x1 == p1.token[zed + 1]
            p2 == peek(p1, 2)
            nPara == p2.token[zed + 2]
            a == peek(next(p2, 2), 1)
            y1 == a.token[zed + 1]
            a2 == peek(a, 2)
            y2 == a2.token[zed + 2]
            withWarning(q, c) ==
                Request(Emit(q, c), "warningExplicitMarkupWithUnIndent", q.nodeTarget)
        IN  IF P.st # "ok" THEN P
            ELSE IF x1 = Nil THEN Panic(p1)
            ELSE IF x1.Type = "BlankLine"
            THEN Emit(p1, CommentNode([Nil EXCEPT !.StartPosition = i.StartPosition, !.Line = i.Line]))
            ELSE IF x1.Type # "Space"
            THEN withWarning(p1, CommentNode([Nil EXCEPT !.Line = i.Line]))
            ELSE IF nPara = Nil \/ nPara.Type # "Text" THEN AppendNode(p2, 0)
            ELSE IF y1 = Nil THEN Panic(a)
            ELSE IF y1.Type = "Space" /\ y2 = Nil THEN Panic(a2)
            ELSE IF y1.Type = "Space" /\ y2.Type = "Text"
            THEN Push(next(a2, 2), [Frame("comment") EXCEPT !.tit = nPara, !.slot = zed - 2])
            ELSE LET z == IF y1.Type = "Space" THEN a2 ELSE a
                 IN  IF y1.Type \notin {"BlankLine", "CommentMark", "EOF"}
                     THEN withWarning(z, CommentNode(nPara))
                     ELSE Emit(z, CommentNode(nPara))
    : P \in {P0}})

\* One line of a comment block: the line is added to the text of the first
\* one, and the loop goes on while an indented Text follows.
commentLine(P0, f) ==
    Val({
        LET cur == P.token[zed]
            text == f.tit.Text \o "\n" \o cur.Text
            nPara == [f.tit EXCEPT !.Text = text]
            Q == IF f.slot >= 0 THEN [P EXCEPT !.token[f.slot] = nPara] ELSE P
            p1 == peek(Q, 1)
            y1 == p1.token[zed + 1]
            p2 == peek(p1, 2)
            y2 == p2.token[zed + 2]
            fin == IF y1.Type = "Space" THEN p2 ELSE p1
        IN  IF cur = Nil THEN [P |-> Panic(P), frame |-> f, more |-> FALSE]
            ELSE IF p1.st # "ok" \/ y1 = Nil THEN [P |-> Panic(p1), frame |-> f, more |-> FALSE]
            ELSE IF y1.Type = "Space" /\ (p2.st # "ok" \/ y2 = Nil)
            THEN [P |-> Panic(p2), frame |-> f, more |-> FALSE]
            ELSE IF y1.Type = "Space" /\ y2.Type = "Text"
            THEN [P |-> next(p2, 2),
                  frame |-> [f EXCEPT !.tit = nPara, !.slot = f.slot - 2],
                  more |-> TRUE]
            ELSE [P |-> Emit(fin, CommentNode([nPara EXCEPT !.Length = Len(text)])),
                  frame |-> f, more |-> FALSE]
    : P \in {P0}})

\* paragraph(i): the Paragraph node with its first Text; the loop follows.
paragraph(P0) ==
    Val({
        LET i == P.token[zed]
            np == Emit(P, NewNode("Paragraph", i.Line, ""))
            nt == Emit(SetTarget(np, np.ret),
                       [NewNode("Text", i.Line, i.Text) EXCEPT !.Length = i.Length])
        IN  Push(nt, [Frame("paragraph") EXCEPT !.a = np.ret, !.b = nt.ret])
    : P \in {P0}})

\* The exit of paragraph(): the target goes back to the open list item, or
\* to the root.
paragraphEnd(P0) ==
    Val({
        SetTarget(P, IF Len(P.indents) > 0 THEN P.indents[Len(P.indents)].node ELSE 0)
    : P \in {P0}})

\* blockquote(i): the Tree appends the node to the root list.
blockquote(P0) ==
    Val({
        LET c == Create(P, NewNode("BlockQuote", P.token[zed].Line, P.token[zed].Text))
        IN  AppendTo(c, 0, c.ret)
    : P \in {P0}})

\* definitionTerm(i): the list, its first item and the item's definition,
\* which becomes the target; the loop follows.
definitionTerm(P0) ==
    Val({
        LET i == P.token[zed]
            dl == Emit(P, NewNode("DefinitionList", i.Line, ""))
            n1 == peek(next(SetTarget(dl, dl.ret), 1), 1)
            dli == Emit(n1, NewNode("DefinitionListItem", i.Line, i.Text))
            c == Create(dli, NewNode("Definition", i.Line, ""))
            def == AppendTo(c, dli.ret, c.ret)
        IN  Push(SetTarget(def, def.ret),
                 [Frame("definition") EXCEPT !.a = dl.ret, !.b = def.ret])
    : P \in {P0}})

\* bulletList(i): the list and its first item, which becomes the target and
\* is put on the indent queue with the bullet token; the loop follows.
bulletList(P0) ==
    Val({
        LET i == P.token[zed]
            bl == Emit(P, NewNode("BulletList", i.Line, i.Text))
            n1 == next(SetTarget(bl, bl.ret), 1)
            bli == Emit(n1, NewNode("BulletListItem", i.Line, ""))
            q == SetTarget(bli, bli.ret)
        IN  IF q.st # "ok" THEN q
            ELSE Push([q EXCEPT !.indents = Append(@, [pos |-> i.StartPosition, node |-> bli.ret])],
                      Frame("bullet"))
    : P \in {P0}})

(***************************************************************************)
(* The parser run: token streams, the main loop and the handler loops      *)
(***************************************************************************)

\* Token groups the streams are made of: <<type, text, start position>>.
Blocks ==
    { <<<<"Title", "Tit", 1>>, <<"SectionAdornment", "===", 1>>>>,
      <<<<"Title", "Tit", 1>>, <<"SectionAdornment", "---", 1>>>>,
      <<<<"Title", "Title", 1>>, <<"SectionAdornment", "===", 1>>>>,
      <<<<"Title", "Tit", 1>>, <<"SectionAdornment", "=====", 1>>>>,
      <<<<"BlankLine", "", 1>>, <<"Title", "Tit", 1>>, <<"SectionAdornment", "~~~", 1>>>>,
      <<<<"Title", "Tit", 1>>, <<"SectionAdornment", "===", 1>>, <<"BlankLine", "", 1>>,
        <<"Title", "Tit", 1>>, <<"SectionAdornment", "---", 1>>, <<"BlankLine", "", 1>>>>,
      <<<<"SectionAdornment", "===", 1>>, <<"Title", "Tit", 1>>, <<"SectionAdornment", "===", 1>>>>,
      <<<<"SectionAdornment", "===", 1>>, <<"Title", "Tit", 1>>, <<"SectionAdornment", "---", 1>>>>,
      <<<<"SectionAdornment", "=====", 1>>, <<"Title", "Tit", 1>>, <<"SectionAdornment", "===", 1>>>>,
      <<<<"SectionAdornment", "===", 1>>, <<"Space", " ", 1>>, <<"Title", "Tit", 2>>,
        <<"SectionAdornment", "===", 1>>>>,
      <<<<"SectionAdornment", "===", 1>>>>,
      <<<<"SectionAdornment", "==", 1>>>>,
      <<<<"Title", "Tit", 1>>>>,
      <<<<"Title", "T", 1>>>>,
      <<<<"Title", "Ti", 1>>>>,
      <<<<"Text", "a", 1>>>>,
      <<<<"Text", "b", 3>>>>,
      <<<<"Space", " ", 1>>>>,
      <<<<"BlankLine", "", 1>>>>,
      <<<<"CommentMark", "..", 1>>>>,
      <<<<"CommentMark", "..", 1>>, <<"Space", " ", 3>>, <<"Text", "c", 4>>,
        <<"Space", " ", 1>>, <<"Text", "d", 4>>>>,
      <<<<"Bullet", "*", 1>>>>,
      <<<<"Bullet", "*", 1>>, <<"Space", " ", 2>>, <<"Text", "a", 3>>,
        <<"BlankLine", "", 1>>, <<"Space", "  ", 1>>, <<"Text", "b", 3>>>>,
      <<<<"Transition", "----", 1>>>>,
      <<<<"DefinitionTerm", "term", 1>>>>,
      <<<<"InlineInterpretedTextOpen", ":", 1>>>> }

\* Largest number of token groups in a stream.
MaxBlocks == 3

RECURSIVE Flatten(_)
Flatten(bs) == IF bs = <<>> THEN <<>> ELSE Head(bs) \o Flatten(Tail(bs))

\* The items the lexer emits for the groups, one per line, and the EOF.
Stream(bs) ==
    LET ts == Flatten(bs)
    IN  [k \in 1..(Len(ts) + 1) |->
            IF k = Len(ts) + 1 THEN Item("EOF", "", 0, k, 1)
            ELSE Item(ts[k][1], ts[k][2], Len(ts[k][2]), k, ts[k][3])]

StreamsUpTo(m) == {Stream(bs) : bs \in UNION {[1..n -> Blocks] : n \in 0..m}}

Streams == StreamsUpTo(MaxBlocks)

\* The parser value of the current state.
Par ==
    [token |-> token, lexpos |-> lexpos, st |-> "ok", nodes |-> nodes,
     nodeTarget |-> nodeTarget, Messages |-> Messages, levels |-> sectionLevels,
     lastSec |-> lastSectionNode, indents |-> indents, version |-> impl,
     ret |-> 0, push |-> <<>>, sm |-> "", smTo |-> -1]

\* A fresh parser over one of the streams.
InitOver(streams) ==
    /\ input \in streams
    /\ lexpos = 0
    /\ token = EmptyBuffer
    /\ last = NoOp
    /\ onlyNext = TRUE
    /\ nNext = 0
    /\ nBackup = 0
    /\ pc = "run"
    /\ impl \in {"Tree", "Parser"}
    /\ sectionLevels = <<>>
    /\ nodes = <<>>
    /\ nodeTarget = 0
    /\ adds = <<>>
    /\ ParIdle

Init == InitOver(Streams)

\* The state after a step: P is the parser value, frames the loops that
\* stay open below the ones P pushes.
Commit(P, frames, finished) ==
    /\ token' = P.token
    /\ lexpos' = P.lexpos
    /\ nodes' = P.nodes
    /\ nodeTarget' = P.nodeTarget
    /\ Messages' = P.Messages
    /\ sectionLevels' = P.levels
    /\ lastSectionNode' = P.lastSec
    /\ indents' = P.indents
    /\ stack' = frames \o P.push
    /\ iter' = IF frames \o P.push = stack THEN 1 - iter ELSE 0
    /\ pc' = IF P.st # "ok" THEN P.st ELSE IF finished THEN "done" ELSE "run"
    /\ UNCHANGED <<input, last, onlyNext, nNext, nBackup, impl, adds, auxVars>>

\* section(i): the handler up to its loop, whose frame keeps the overline.
section(P0) ==
    Val({
        LET e == sectionEnter(P)
        IN  IF e.kind = "loop" THEN Push(e.P, [Frame("section") EXCEPT !.over = P.token[zed]])
            ELSE IF e.kind = "build" THEN sectionBuild(e.P, Nil, Nil, e.title, P.token[zed])
            ELSE sectionMessage(e.P, e.err)
    : P \in {P0}})

\* The Space case of Parser.parse: an indent after a blank line opens an
\* empty block quote, unless the lexer sends the block quote itself.
space(P0) ==
    Val({
        LET p1 == peek(P, 1)
        IN  IF P.version # "Parser" THEN P
            ELSE IF peekBack(P, 1) = Nil THEN Panic(P)
            ELSE IF peekBack(P, 1).Type # "BlankLine" THEN P
            ELSE IF p1.st = "ok" /\ p1.token[zed + 1] # Nil /\ p1.token[zed + 1].Type = "BlockQuote"
            THEN p1
            ELSE Emit(p1, NewNode("BlockQuote", P.token[zed].Line, ""))
    : P \in {P0}})

\* The transition of parse(): the Parser appends the node, the Tree drops it.
transition(P0) ==
    Val({
        LET tk == P.token[zed]
        IN  IF P.version = "Parser" THEN Emit(P, NewNode("Transition", tk.Line, tk.Text))
            ELSE Create(P, NewNode("Transition", tk.Line, tk.Text))
    : P \in {P0}})

\* The switch on the type of the current token: of parse() (mode "top"), of
\* subParseBodyElements() ("body") and of the loop of paragraph() ("para");
\* "none" when the caller reaches no switch.
handle(P0, mode) ==
    Val({
        LET ty == P.token[zed].Type
            block == mode \in {"top", "body"}
        IN  IF mode = "none" \/ P.st # "ok" THEN P
            ELSE IF ty \in DOMAIN InlineOpen THEN inline(P, InlineOpen[ty])
            ELSE IF ty = "InlineInterpretedTextOpen" THEN inlineInterpretedText(P)
            ELSE IF ty = "CommentMark" THEN comment(P)
            ELSE IF block /\ ty = "Text" THEN paragraph(P)
            ELSE IF block /\ ty = "BlockQuote" THEN blockquote(P)
            ELSE IF mode = "top" /\ ty = "Transition" THEN transition(P)
            ELSE IF mode = "top" /\ ty = "SectionAdornment" THEN section(P)
            ELSE IF mode = "top" /\ ty = "Space" THEN space(P)
            ELSE IF mode = "top" /\ ty = "DefinitionTerm" THEN definitionTerm(P)
            ELSE IF mode = "top" /\ ty = "Bullet" THEN bulletList(P)
            ELSE P
    : P \in {P0}})

Top == stack[Len(stack)]
Below == SubSeq(stack, 1, Len(stack) - 1)

\* What an iteration does before the switch it may reach: the parser value,
\* the loops that stay open and the switch.
Turn(P, frames, mode) == [P |-> P, frames |-> frames, mode |-> mode]

\* One iteration of the loop of parse().
ParseStep ==
    /\ pc = "run" /\ stack = <<>>
    /\ \E a \in {next(Par, 1)} :
       \E fin \in {a.token[zed] = Nil \/ a.token[zed].Type = "EOF"} :
       \E q \in {Finish(handle(a, IF fin THEN "none" ELSE "top"))} :
           Commit(q, <<>>, fin)

\* One iteration of the loop of the section handler over the tokens after
\* an overline.  A token that is no Title, Space or SectionAdornment matches
\* no case: the iteration changes nothing and the loop goes round again.
SectionStep ==
    /\ pc = "run" /\ stack # <<>> /\ Top.loop = "section"
    /\ \E tTok \in {token[zed]} :
       \E r \in {IF tTok = Nil THEN Turn(Panic(Par), stack, "none")
                ELSE IF tTok.Type = "Title"
                THEN Turn(next(Par, 1), Append(Below, [Top EXCEPT !.tit = tTok]), "none")
                ELSE IF tTok.Type = "Space"
                THEN Turn(next(Par, 1), Append(Below, [Top EXCEPT !.ind = tTok]), "none")
                ELSE IF tTok.Type = "SectionAdornment"
                THEN Turn(Par, Below, "build")
                ELSE Turn(Par, stack, "none")} :
       \E q \in {Finish(IF r.mode = "build"
                        THEN sectionBuild(r.P, Top.over, Top.ind, Top.tit, tTok)
                        ELSE r.P)} :
           Commit(q, r.frames, FALSE)

\* One iteration of the loop of paragraph().
ParagraphStep ==
    /\ pc = "run" /\ stack # <<>> /\ Top.loop = "paragraph"
    /\ \E a \in {next(Par, 1)} :
       LET ci == a.token[zed]
           pi == a.token[zed - 1]
           nt == Top.b
           newText == Emit(a, [NewNode("Text", ci.Line, ci.Text) EXCEPT !.Length = ci.Length])
           r == IF a.st # "ok" THEN Turn(a, stack, "none")
                ELSE IF ci = Nil \/ ci.Type = "EOF" THEN Turn(paragraphEnd(a), Below, "none")
                ELSE IF pi # Nil /\ pi.Type = "Text" /\ ci.Type = "Text"
                THEN Turn([a EXCEPT !.nodes[nt].Text = @ \o "\n" \o ci.Text,
                                    !.nodes[nt].Length =
                                        Len(a.nodes[nt].Text \o "\n" \o ci.Text)],
                          stack, "none")
                ELSE IF ci.Type = "Text"
                THEN IF pi # Nil /\ pi.Type = "Escape" /\ pi.StartPosition > ci.StartPosition
                     THEN Turn([a EXCEPT !.nodes[nt].Text = @ \o ci.Text,
                                         !.nodes[nt].Length = Len(a.nodes[nt].Text \o ci.Text)],
                               stack, "none")
                     ELSE Turn(newText, Append(Below, [Top EXCEPT !.b = newText.ret]), "none")
                ELSE IF ci.Type = "BlankLine"
                THEN Turn(paragraphEnd(backup(a)), Below, "none")
                ELSE Turn(a, stack, "para")
       IN  \E t \in {r} : \E q \in {Finish(handle(t.P, t.mode))} :
               Commit(q, t.frames, FALSE)

\* One iteration of the loop of comment() over the lines of a block.
CommentStep ==
    /\ pc = "run" /\ stack # <<>> /\ Top.loop = "comment"
    /\ \E r \in {commentLine(Par, Top)} :
           Commit(r.P, IF r.more THEN Append(Below, r.frame) ELSE Below, FALSE)

\* One iteration of the loop of definitionTerm().
DefinitionStep ==
    /\ pc = "run" /\ stack # <<>> /\ Top.loop = "definition"
    /\ \E a \in {next(Par, 1)} :
       LET ni == a.token[zed]
           pb == a.token[zed - 1]
           np == Emit(a, NewNode("Paragraph", ni.Line, ni.Text))
           p2 == peek(a, 2)
           dli2 == Emit(SetTarget(p2, Top.a), NewNode("DefinitionListItem", ni.Line, ni.Text))
           c == Create(dli2, NewNode("Definition", ni.Line, ""))
           def2 == AppendTo(c, dli2.ret, c.ret)
           r == IF a.st # "ok" THEN Turn(a, stack, "none")
                ELSE IF ni = Nil \/ ni.Type = "EOF" THEN Turn(a, Below, "none")
                ELSE IF ni.Type = "Space" THEN Turn(a, stack, "none")
                ELSE IF ni.Type = "BlankLine" THEN Turn(SetTarget(a, Top.b), stack, "body")
                ELSE IF ni.Type = "CommentMark" /\ pb # Nil /\ pb.Type # "Space"
                THEN Turn(backup(SetTarget(a, 0)), Below, "none")
                ELSE IF ni.Type = "DefinitionText" THEN Turn(SetTarget(np, np.ret), stack, "none")
                ELSE IF ni.Type = "DefinitionTerm" THEN Turn(SetTarget(def2, def2.ret), stack, "none")
                ELSE Turn(a, stack, "body")
       IN  \E t \in {r} : \E q \in {Finish(handle(t.P, t.mode))} :
               Commit(q, t.frames, FALSE)

\* One iteration of the loop of bulletList(): a token after an indent that
\* does not start where the list item does ends the process.
BulletStep ==
    /\ pc = "run" /\ stack # <<>> /\ Top.loop = "bullet"
    /\ \E a \in {next(Par, 1)} :
       LET ni == a.token[zed]
           n == Len(a.indents)
           open == n > 0 /\ ListLen(a.nodes, a.indents[n].node) > 0
           pop(q) == [q EXCEPT !.indents = SubSeq(@, 1, Len(@) - 1)]
           r == IF a.st # "ok" THEN Turn(a, stack, "none")
                ELSE IF ni = Nil \/ ni.Type = "EOF" THEN Turn(pop(a), Below, "none")
                ELSE IF open /\ a.token[zed - 1] = Nil THEN Turn(Panic(a), stack, "none")
                ELSE IF open /\ a.token[zed - 1].Type = "Space" /\ a.token[zed - 2] = Nil
                THEN Turn(Panic(a), stack, "none")
                ELSE IF /\ open
                        /\ a.token[zed - 1].Type = "Space"
                        /\ a.token[zed - 2].Type # "CommentMark"
                        /\ a.indents[n].pos # ni.StartPosition
                THEN Turn([a EXCEPT !.st = "exit"], stack, "none")
                ELSE Turn(a, stack, "body")
       IN  \E t \in {r} : \E q \in {Finish(handle(t.P, t.mode))} :
               Commit(q, t.frames, FALSE)

Next ==
    \/ ParseStep
    \/ SectionStep
    \/ ParagraphStep
    \/ CommentStep
    \/ DefinitionStep
    \/ BulletStep

Spec == Init /\ [][Next]_vars

\* Largest number of token groups in a stream of the fair runs.
MaxFairBlocks == 2

InitFair == InitOver(StreamsUpTo(MaxFairBlocks))

\* The parser runs as long as it can: a loop that can take a step takes it.
FairSpec == InitFair /\ [][Next]_vars /\ WF_vars(Next)

(***************************************************************************)
(* Message types (package messages): the name and the level of a type, in  *)
(* the version with the InlineMarkup type last ("part_000") and in the     *)
(* version of pkg/messages ("messages").                                   *)
(***************************************************************************)

\* messageTypes: the names in the order of the constants, ParserMessageNil
\* first (MessageType 0).
messageTypes(v) ==
    IF v = "part_000"
    THEN <<"ParserMessageNil",
           "SectionWarningOverlineTooShortForTitle",
           "SectionWarningUnexpectedTitleOverlineOrTransition",
           "SectionWarningUnderlineTooShortForTitle",
           "SectionWarningShortOverline",
           "SectionWarningShortUnderline",
           "SectionErrorInvalidSectionOrTransitionMarker",
           "SectionErrorUnexpectedSectionTitle",
           "SectionErrorUnexpectedSectionTitleOrTransition",
           "SectionErrorIncompleteSectionTitle",
           "SectionErrorMissingMatchingUnderlineForOverline",
           "SectionErrorOverlineUnderlineMismatch",
           "SectionErrorTitleLevelInconsistent",
           "InlineMarkupWarningExplicitMarkupWithUnIndent">>
    ELSE <<"ParserMessageNil",
           "SectionWarningOverlineTooShortForTitle",
           "SectionWarningUnexpectedTitleOverlineOrTransition",
           "SectionWarningUnderlineTooShortForTitle",
           "SectionWarningShortOverline",
           "SectionWarningShortUnderline",
           "InlineMarkupWarningExplicitMarkupWithUnIndent",
           "SectionErrorInvalidSectionOrTransitionMarker",
           "SectionErrorUnexpectedSectionTitle",
           "SectionErrorUnexpectedSectionTitleOrTransition",
           "SectionErrorIncompleteSectionTitle",
           "SectionErrorMissingMatchingUnderlineForOverline",
           "SectionErrorOverlineUnderlineMismatch",
           "SectionErrorTitleLevelInconsistent">>

\* MessageType.String()
TypeString(v, m) == messageTypes(v)[m + 1]

\* strings.Contains(s, substr)
Contains(s, substr) ==
    \E i \in 1..(Len(s) - Len(substr) + 1) : SubSeq(s, i, i + Len(substr) - 1) = substr

\* MessageType.level(): by the name of the type in part_000, by the value of
\* the constant in pkg/messages.
messageLevel(v, m) ==
    IF v = "part_000"
    THEN IF Contains(TypeString(v, m), "Warning") THEN "WARNING" ELSE "ERROR"
    ELSE IF m > 0 /\ m <= 5 THEN "INFO" ELSE "ERROR"

\* Largest number of level() calls in a run.
MaxLevelCalls == 2

InitMessages ==
    /\ BufIdle
    /\ pc = "msg"
    /\ impl \in {"part_000", "messages"}
    /\ sectionLevels = <<>>
    /\ nodes = <<>>
    /\ nodeTarget = 0
    /\ adds = <<>>
    /\ HandlersIdle
    /\ leveled = <<>>
    /\ tbuf = <<>>
    /\ cursor = <<>>

\* One call of level() on a message type.
Level ==
    /\ pc = "msg"
    /\ Len(leveled) < MaxLevelCalls
    /\ \E m \in 1..(Len(messageTypes(impl)) - 1) :
          leveled' = Append(leveled, [type |-> TypeString(impl, m),
                                      level |-> messageLevel(impl, m)])
    /\ UNCHANGED <<bufVars, pc, regVars, parVars, cursor, tbuf>>

SpecMessages == InitMessages /\ [][Level]_vars

\* The types the taxonomy lists as warnings.
WarningTypes ==
    {"SectionWarningOverlineTooShortForTitle",
     "SectionWarningUnexpectedTitleOverlineOrTransition",
     "SectionWarningUnderlineTooShortForTitle",
     "SectionWarningShortOverline",
     "SectionWarningShortUnderline",
     "InlineMarkupWarningExplicitMarkupWithUnIndent"}

\* C17: every diagnostic type gets the severity of the taxonomy: the five
\* Section warnings and InlineMarkupWarningExplicitMarkupWithUnIndent are
\* WARNING and every other type is ERROR.
C17_SeverityOfTaxonomy ==
    \A k \in 1..Len(leveled) :
        leveled[k].level = IF leveled[k].type \in WarningTypes THEN "WARNING" ELSE "ERROR"

(***************************************************************************)
(* System messages of the older revision of the parser                     *)
(* (src/unnamed/part_001).  Its Tree.systemMessage knows eight message     *)
(* types, wraps the message in a Paragraph and always appends the literal  *)
(* block.  The harness calls it on the token buffer the way section() does:*)
(* after some calls of next().                                             *)
(***************************************************************************)

Part001Types ==
    {"warningShortOverline", "warningShortUnderline",
     "errorInvalidSectionOrTransitionMarker", "severeUnexpectedSectionTitle",
     "severeUnexpectedSectionTitleOrTransition", "severeIncompleteSectionTitle",
     "severeMissingMatchingUnderlineForOverline", "severeOverlineUnderlineMismatch"}

\* The switch of the older systemMessage: the cases build the same literal
\* text; the two-line cases leave s.Line at the line of the current token.
systemMessageBodyPart001(P0, err) ==
    Val({
        LET b == SystemMessageBody(P, err)
        IN  IF err \in {"warningShortUnderline", "severeUnexpectedSectionTitle"}
            THEN [b EXCEPT !.line = P.token[zed].Line]
            ELSE b
    : P \in {P0}})

systemMessagePart001(P0, err) ==
    Val({
        IF P.st # "ok" THEN P
        ELSE IF P.token[zed] = Nil THEN Panic(P)
        ELSE
            LET body == systemMessageBodyPart001(P, err)
                Q == body.P
                sm == Len(Q.nodes) + 1
                s == [NewNode("SystemMessage", body.line, "") EXCEPT !.msg = err]
                msg == [NewNode("Paragraph", 0, err) EXCEPT !.parent = sm, !.ord = 1]
                lb == [NewNode("LiteralBlock", 0, body.lit) EXCEPT !.parent = sm, !.ord = 2]
            IN  IF Q.st # "ok" THEN Q
                ELSE [Q EXCEPT !.nodes = Q.nodes \o <<s, msg, lb>>,
                               !.Messages = Append(@, sm),
                               !.ret = sm]
    : P \in {P0}})

MaxReports == 2
MaxReportBlocks == 2

InitReports ==
    /\ input \in StreamsUpTo(MaxReportBlocks)
    /\ lexpos = 0
    /\ token = EmptyBuffer
    /\ last = NoOp
    /\ onlyNext = TRUE
    /\ nNext = 0
    /\ nBackup = 0
    /\ pc = "report"
    /\ impl = "part_001"
    /\ sectionLevels = <<>>
    /\ nodes = <<>>
    /\ nodeTarget = 0
    /\ adds = <<>>
    /\ ParIdle

\* t.next() while the lexer has tokens.
ReportNext ==
    /\ pc = "report"
    /\ NextItem(lexpos) # Nil \/ token[zed + 1] # Nil
    /\ \E b \in {next1(Cur)} :
          /\ token' = b.token
          /\ lexpos' = b.lexpos
    /\ UNCHANGED <<input, last, onlyNext, nNext, nBackup, pc, regVars, parVars, auxVars>>

\* t.systemMessage(err) on the current buffer.
ReportSystemMessage ==
    /\ pc = "report"
    /\ Len(Messages) < MaxReports
    /\ \E err \in Part001Types :
         \E P \in {systemMessagePart001(Par, err)} :
            /\ token' = P.token
            /\ lexpos' = P.lexpos
            /\ nodes' = P.nodes
            /\ Messages' = P.Messages
            /\ pc' = IF P.st = "ok" THEN "report" ELSE P.st
    /\ UNCHANGED <<input, last, onlyNext, nNext, nBackup, impl, sectionLevels,
                   nodeTarget, adds, lastSectionNode, indents, stack, iter, auxVars>>

NextReports == ReportNext \/ ReportSystemMessage

SpecReports == InitReports /\ [][NextReports]_vars

(***************************************************************************)
(* The character cursor of the lexer (package token).  A text is the       *)
(* sequence of its lines, a line the sequence of its runes; index counts   *)
(* the bytes of the UTF-8 encoding from the start of the line, and lines   *)
(* are numbered from 1.  The texts are the inputs of lexerNextTests.       *)
(***************************************************************************)

\* The end-of-line mark next() returns instead of a rune.
EOL == "EOL"

\* Bytes of the UTF-8 encoding of a rune.
RuneWidth(r) ==
    IF r \in {"U+4E16", "U+754C"} THEN 3 ELSE IF r = "U+00E0" THEN 2 ELSE 1

RECURSIVE ByteLen(_)
ByteLen(ln) == IF ln = <<>> THEN 0 ELSE RuneWidth(Head(ln)) + ByteLen(Tail(ln))

\* The byte offsets at which the runes of a line start.
RuneStarts(ln) == {ByteLen(SubSeq(ln, 1, k)) : k \in 0..(Len(ln) - 1)}

\* The rune that starts at byte offset i of the line, EOL at its end.
RuneAt(ln0, i0) ==
    Val({IF i \in RuneStarts(ln)
         THEN ln[(CHOOSE k \in 0..(Len(ln) - 1) : ByteLen(SubSeq(ln, 1, k)) = i) + 1]
         ELSE EOL
        : ln \in {ln0}, i \in {i0}})

MarkWidth(ln0, i0) ==
    Val({IF i \in RuneStarts(ln) THEN RuneWidth(RuneAt(ln, i)) ELSE 0
        : ln \in {ln0}, i \in {i0}})

Input1 ==
    <<<<"T", "i", "t", "l", "e">>>>

Input2 ==
    <<<<"B", "u", "y", " ", "U+00E0", " ", "d", "i", "a", "c", "r", "i", "t", "i", "c">>>>

Input3 ==
    <<<<"T", "i", "t", "l", "e">>,
       <<"U+00E0", " ", "d", "i", "a", "c", "r", "i", "t", "i", "c">>>>

Input4 ==
    <<<<"t", "i", "t", "l", "e">>,
       <<>>,
       <<"U+00E0", " ", "d", "i", "a", "c", "r", "i", "t", "i", "c">>>>

Input5 ==
    <<<<"H", "e", "l", "l", "o", ",", " ", "U+4E16", "U+754C">>>>

Input6 ==
    <<<<"H", "e", "l", "l", "o">>,
       <<>>,
       <<"w", "o", "r", "l", "d">>,
       <<"y", "e", "a", "h", "!">>>>

Input7 ==
    <<<<"U+00E0", " ", "T", "i", "t", "l", "e">>>>

Input8 ==
    <<<<"T", "i", "t", "l", "e">>,
       <<"=", "=", "=", "=", "=">>>>

Input9 ==
    <<<<"T", "i", "t", "l", "e">>,
       <<>>,
       <<"U+00E0", " ", "d", "i", "a", "c", "r", "i", "t", "i", "c">>>>

CursorInputs == {Input1, Input2, Input3, Input4, Input5, Input6, Input7, Input8, Input9}

\* The rows of lexerNextTests: the cursor is put at (start, startLine) and
\* next() is expected to leave it at nIndex, nLine with nMark and nWidth.
lexerNextTests ==
    {[input |-> Input1, start |-> 0, startLine |-> 1, nIndex |-> 1, nMark |-> "i", nWidth |-> 1, nLine |-> 1],
     [input |-> Input1, start |-> 1, startLine |-> 1, nIndex |-> 2, nMark |-> "t", nWidth |-> 1, nLine |-> 1],
     [input |-> Input1, start |-> 5, startLine |-> 1, nIndex |-> 5, nMark |-> EOL, nWidth |-> 0, nLine |-> 1],
     [input |-> Input2, start |-> 4, startLine |-> 1, nIndex |-> 6, nMark |-> " ", nWidth |-> 1, nLine |-> 1],
     [input |-> Input3, start |-> 5, startLine |-> 1, nIndex |-> 0, nMark |-> "U+00E0", nWidth |-> 2, nLine |-> 2],
     [input |-> Input3, start |-> 0, startLine |-> 2, nIndex |-> 2, nMark |-> " ", nWidth |-> 1, nLine |-> 2],
     [input |-> Input4, start |-> 5, startLine |-> 1, nIndex |-> 0, nMark |-> EOL, nWidth |-> 0, nLine |-> 2],
     [input |-> Input5, start |-> 7, startLine |-> 1, nIndex |-> 10, nMark |-> "U+754C", nWidth |-> 3, nLine |-> 1],
     [input |-> Input6, start |-> 4, startLine |-> 4, nIndex |-> 5, nMark |-> EOL, nWidth |-> 0, nLine |-> 4]}

\* The rows of lexerBackupTests: the cursor is put at (start, startLine) and
\* backup(pos) is expected to leave it at lIndex, lLine with lMark and lWidth.
lexerBackupTests ==
    {[input |-> Input1, pos |-> 1, start |-> 0, startLine |-> 1, lIndex |-> 0, lMark |-> "T", lWidth |-> 1, lLine |-> 1],
     [input |-> Input1, pos |-> 2, start |-> 3, startLine |-> 1, lIndex |-> 1, lMark |-> "i", lWidth |-> 1, lLine |-> 1],
     [input |-> Input7, pos |-> 1, start |-> 2, startLine |-> 1, lIndex |-> 0, lMark |-> "U+00E0", lWidth |-> 2, lLine |-> 1],
     [input |-> Input8, pos |-> 1, start |-> 0, startLine |-> 2, lIndex |-> 5, lMark |-> EOL, lWidth |-> 0, lLine |-> 1],
     [input |-> Input3, pos |-> 1, start |-> 2, startLine |-> 2, lIndex |-> 0, lMark |-> "U+00E0", lWidth |-> 2, lLine |-> 2],
     [input |-> Input9, pos |-> 1, start |-> 0, startLine |-> 3, lIndex |-> 0, lMark |-> EOL, lWidth |-> 0, lLine |-> 2],
     [input |-> Input9, pos |-> 1, start |-> 0, startLine |-> 2, lIndex |-> 5, lMark |-> EOL, lWidth |-> 0, lLine |-> 1],
     [input |-> Input5, pos |-> 1, start |-> 10, startLine |-> 1, lIndex |-> 7, lMark |-> "U+4E16", lWidth |-> 3, lLine |-> 1]}

\* newLexer: the cursor on the first rune of the text.
newLexer(lines) ==
    [lines |-> lines, index |-> 0, line |-> 1, mark |-> RuneAt(lines[1], 0),
     width |-> MarkWidth(lines[1], 0), op |-> "new", arg |-> 0, from |-> <<0, 1>>]

\* gotoLocation(start, startLine).
gotoLocation(c, start, startLine) ==
    [c EXCEPT !.index = start, !.line = startLine,
              !.mark = RuneAt(c.lines[startLine], start),
              !.width = MarkWidth(c.lines[startLine], start),
              !.op = "goto", !.arg = 0, !.from = <<c.index, c.line>>]

isLastLine(c) == c.line = Len(c.lines)

\* next() that reads on into the next line from the last rune of a line.
lexerNextCrossing(c) ==
    LET ln == c.lines[c.line]
        i == c.index + MarkWidth(ln, c.index)
        cross == i >= ByteLen(ln) /\ ~isLastLine(c)
        l2 == IF cross THEN c.line + 1 ELSE c.line
        i2 == IF cross THEN 0 ELSE i
    IN  [c EXCEPT !.index = i2, !.line = l2,
                  !.mark = RuneAt(c.lines[l2], i2),
                  !.width = MarkWidth(c.lines[l2], i2),
                  !.op = "next", !.arg = 0, !.from = <<c.index, c.line>>]

\* next(): one rune forward within the line; from the end of a line to the
\* start of the next line; at the end of the last line the cursor stays.
lexerNext(c0) ==
    Val({
        LET ln == c.lines[c.line]
            atEnd == c.index >= ByteLen(ln)
        IN  Val({[c EXCEPT !.index = i2, !.line = l2,
                           !.mark = RuneAt(c.lines[l2], i2),
                           !.width = MarkWidth(c.lines[l2], i2),
                           !.op = "next", !.arg = 0, !.from = <<c.index, c.line>>]
                : l2 \in {IF atEnd /\ ~isLastLine(c) THEN c.line + 1 ELSE c.line},
                  i2 \in {IF atEnd
                           THEN IF isLastLine(c) THEN c.index ELSE 0
                           ELSE c.index + MarkWidth(ln, c.index)}})
    : c \in {c0}})

lineNumber(c) == c.line

\* backup(1): one rune back within the line; from the start of a line to the
\* end of the line before; at the start of the text the cursor stays.
lexerBackup1(c0) ==
    Val({
        LET ln == c.lines[c.line]
            up == c.index = 0 /\ c.line > 1
            l2 == IF up THEN c.line - 1 ELSE c.line
        IN  Val({[c EXCEPT !.index = i2, !.line = l2,
                           !.mark = RuneAt(c.lines[l2], i2),
                           !.width = MarkWidth(c.lines[l2], i2)]
                : i2 \in {IF up THEN ByteLen(c.lines[l2])
                           ELSE IF c.index = 0 THEN 0
                           ELSE CHOOSE i \in RuneStarts(ln) :
                                   /\ i < c.index
                                   /\ \A j \in RuneStarts(ln) : j < c.index => j <= i}})
    : c \in {c0}})

\* backup(pos).
RECURSIVE lexerBackupFrom(_, _)
lexerBackupFrom(c, pos) == IF pos = 0 THEN c ELSE lexerBackupFrom(lexerBackup1(c), pos - 1)

lexerBackup(c, pos) ==
    [lexerBackupFrom(c, pos) EXCEPT !.op = "backup", !.arg = pos,
                                    !.from = <<c.index, c.line>>]

InitCursor ==
    /\ BufIdle
    /\ pc = "cursor"
    /\ impl = "none"
    /\ sectionLevels = <<>>
    /\ nodes = <<>>
    /\ nodeTarget = 0
    /\ adds = <<>>
    /\ HandlersIdle
    /\ leveled = <<>>
    /\ tbuf = <<>>
    /\ \E lines \in CursorInputs : cursor = newLexer(lines)

CursorGoto ==
    /\ pc = "cursor"
    /\ \E startLine \in 1..Len(cursor.lines) :
       \E start \in RuneStarts(cursor.lines[startLine]) \cup {ByteLen(cursor.lines[startLine])} :
          cursor' = gotoLocation(cursor, start, startLine)
    /\ UNCHANGED <<bufVars, pc, regVars, parVars, leveled, tbuf>>

CursorNext ==
    /\ pc = "cursor"
    /\ cursor' = lexerNext(cursor)
    /\ UNCHANGED <<bufVars, pc, regVars, parVars, leveled, tbuf>>

MaxCursorBackup == 2

CursorBackup ==
    /\ pc = "cursor"
    /\ \E pos \in 1..MaxCursorBackup : cursor' = lexerBackup(cursor, pos)
    /\ UNCHANGED <<bufVars, pc, regVars, parVars, leveled, tbuf>>

NextCursor == CursorGoto \/ CursorNext \/ CursorBackup

SpecCursor == InitCursor /\ [][NextCursor]_vars

(***************************************************************************)
(* Hyperlink targets: the reference-name tests of token/token_test.go and  *)
(* the lexing loops of parse/lexer_target.go over the character cursor.    *)
(***************************************************************************)

UpperRunes == {"A", "B", "H", "T"}

LowerRunes ==
    {"a", "c", "d", "e", "h", "i", "l", "o", "r", "t", "u", "w", "y", "U+00E0"}

DigitRunes == {"0", "7"}

\* The general category of a rune in the tables of package unicode.
RuneCategory(r) ==
    CASE r \in UpperRunes -> "Lu"
      [] r \in LowerRunes -> "Ll"
      [] r = "U+01C5" -> "Lt"
      [] r \in {"U+4E16", "U+754C"} -> "Lo"
      [] r \in DigitRunes -> "Nd"
      [] r = "_" -> "Pc"
      [] r = "-" -> "Pd"
      [] r \in {"+", "="} -> "Sm"
      [] r \in {".", ":", "!", ",", "U+005C"} -> "Po"
      [] r = "U+0060" -> "Sk"
      [] r = " " -> "Zs"
      [] OTHER -> "Co"

\* unicode.IsSpace; the EOL rune of the cursor is not a space.
IsSpace(r) == r = " "

\* unicode.In(r, ranges...)
In(r, ranges) == RuneCategory(r) \in ranges

allowedRunes == <<"_", "-", "+", ".", ":">>

allowedCats == {"Nd", "Ll", "Lt"}

\* isReferenceNameSimpleAllowedRune: the loop over allowedRunes.
RECURSIVE isReferenceNameSimpleAllowedRuneFrom(_, _)
isReferenceNameSimpleAllowedRuneFrom(r, k) ==
    IF k > Len(allowedRunes) THEN FALSE
    ELSE IF allowedRunes[k] = r THEN TRUE
    ELSE IF In(r, allowedCats) THEN TRUE
    ELSE isReferenceNameSimpleAllowedRuneFrom(r, k + 1)

isReferenceNameSimpleAllowedRune(r) == isReferenceNameSimpleAllowedRuneFrom(r, 1)

\* peek(n) of the cursor: the mark n runes ahead, lines crossed as next()
\* crosses them; the cursor does not move.
RECURSIVE lexerPeek(_, _)
lexerPeek(c0, n) ==
    Val({IF n = 0 THEN c.mark ELSE lexerPeek(lexerNext(c), n - 1) : c \in {c0}})

\* isReferenceNameSimple(l, fromPos)
RECURSIVE isReferenceNameSimpleFrom(_, _)
isReferenceNameSimpleFrom(l, count) ==
    Val({IF p = ":" THEN TRUE
         ELSE IF IsSpace(p) THEN FALSE
         ELSE IF p = EOL THEN FALSE
         ELSE IF ~isReferenceNameSimpleAllowedRune(p) THEN FALSE
         ELSE isReferenceNameSimpleFrom(l, count + 1)
        : p \in {lexerPeek(l, count)}})

isReferenceNameSimple(l, fromPos) == isReferenceNameSimpleFrom(l, fromPos)

\* isReferenceNamePhrase(l, fromPos): the loop state is count, words, openTick.
RECURSIVE isReferenceNamePhraseFrom(_, _, _, _, _)
isReferenceNamePhraseFrom(l, fromPos, count, words, openTick) ==
    Val({IF p = EOL /\ fromPos = count THEN FALSE
         ELSE IF p = "U+0060"
         THEN IF openTick /\ lexerPeek(l, count + 1) = ":" THEN TRUE
              ELSE isReferenceNamePhraseFrom(l, fromPos, count + 1, words, TRUE)
         ELSE IF p = EOL THEN words # 0
         ELSE IF IsSpace(p)
         THEN isReferenceNamePhraseFrom(l, fromPos, count + 1, words + 1, openTick)
         ELSE isReferenceNamePhraseFrom(l, fromPos, count + 1, words, openTick)
        : p \in {lexerPeek(l, count)}})

isReferenceNamePhrase(l, fromPos) == isReferenceNamePhraseFrom(l, fromPos, fromPos, 0, FALSE)

\* Longest text after the prefix ".. _" of an explicit target.
MaxNameLen == 3

\* The runes of that text.
NameRunes == {"a", " ", "U+0060"}

\* What follows it on the line: nothing, the suffix ":", or the suffix and
\* a URI or a reference, the reference quoted or not, closed or not.
TargetRests ==
    {<<>>, <<":">>, <<":", " ", "a">>, <<":", " ", "a", "_">>,
     <<":", " ", "U+0060", "a">>, <<":", " ", "U+0060", "a", "U+0060", "_">>}

\* The runes handed to isReferenceNameSimpleAllowedRune.
TestedRunes ==
    {"T", "a", "U+00E0", "7", "U+01C5", "U+4E16", "_", "-", "+", ".", ":", "=", "U+005C", "U+0060", " "}

TargetPrefix == <<".", ".", " ", "_">>

\* First position after the prefix, counted from the cursor on the first ".".
NameFrom == 4

TargetNames == UNION {[1..n -> NameRunes] : n \in 0..MaxNameLen}

\* The lines after the line of the target.
TargetTails == {<<>>, <<<<"a">>>>, <<<<" ", "a">>>>}

TargetInputs ==
    {<<TargetPrefix \o nm \o rs>> \o tl :
        nm \in TargetNames, rs \in TargetRests, tl \in TargetTails}

\* The state of the harness: the lexer with the start of the pending item
\* and the type of the last item sent, the last call with its result, and
\* the place of lexHyperlinkTarget with the inquote flag of its loop and the
\* parity of the number of passes of the loops.
NewTarget(lines) ==
    [l |-> newLexer(lines), start |-> <<0, 1>>, lastItem |-> "none",
     call |-> "none", arg |-> "", ret |-> FALSE,
     at |-> "none", inquote |-> FALSE, pass |-> 0]

\* peekBack(1) of the cursor: the rune before the mark, EOL across a line
\* boundary.
lexerPeekBack(c0, n) == Val({lexerBackupFrom(c, n).mark : c \in {c0}})

\* l.next() and l.emit(type) on the state of the harness.
Advance(T0) == Val({[T EXCEPT !.l = lexerNext(T.l)] : T \in {T0}})

emit(T0, type) ==
    Val({[T EXCEPT !.lastItem = type, !.start = <<T.l.index, T.l.line>>] : T \in {T0}})

\* lexSpace: the cursor goes over the run of spaces and the run is sent.
RECURSIVE SkipSpaces(_)
SkipSpaces(T0) ==
    Val({IF IsSpace(T.l.mark) THEN SkipSpaces(Advance(T)) ELSE T : T \in {T0}})

lexSpace(T0) ==
    Val({IF IsSpace(T.l.mark) THEN emit(SkipSpaces(T), "Space") ELSE T : T \in {T0}})

\* One pass of the loop of lexHyperlinkTargetName; the loop is left with
\* `at` set to "suffix".
lexHyperlinkTargetName(T0) ==
    Val({
        LET lb == lexerPeekBack(T.l, 1)
            lp == lexerPeek(T.l, 1)
            left(X) == [X EXCEPT !.at = "suffix", !.inquote = FALSE]
        IN  IF T.l.mark = "U+0060"
            THEN IF ~T.inquote
                 THEN Advance(emit(Advance([T EXCEPT !.inquote = TRUE]), "HyperlinkTargetQuote"))
                 ELSE left(emit(Advance(emit(T, "HyperlinkTargetName")), "HyperlinkTargetQuote"))
            ELSE IF T.l.mark = ":" /\ ~T.inquote /\ lb # "U+005C"
            THEN IF <<T.l.index, T.l.line>> # T.start
                 THEN left(emit(T, "HyperlinkTargetName"))
                 ELSE left(T)
            ELSE IF IsSpace(T.l.mark) /\ (lp # EOL /\ IsSpace(lp))
            THEN Advance(lexSpace(T))
            ELSE IF T.l.mark = EOL /\ ~IsSpace(lp)
            THEN left(emit(T, "HyperlinkTargetName"))
            ELSE IF T.l.mark = EOL
            THEN Advance(emit(T, "HyperlinkTargetName"))
            ELSE Advance(T)
    : T \in {T0}})

\* One pass of the loop of lexHyperlinkTargetBlock; the loop is left with
\* `at` set to after.
lexHyperlinkTargetBlock(T0, after) ==
    Val({
        LET lb == lexerPeekBack(T.l, 1)
            lp == lexerPeek(T.l, 1)
            left(X) == [X EXCEPT !.at = after, !.inquote = FALSE]
        IN  IF T.l.mark = "U+0060"
            THEN IF ~T.inquote
                 THEN Advance(emit(Advance([T EXCEPT !.inquote = TRUE]), "InlineReferenceOpen"))
                 ELSE left(emit(Advance(Advance(emit(T, "InlineReferenceText"))),
                                "InlineReferenceClose"))
            ELSE IF lb # "U+005C" /\ T.l.mark = "_" /\ lp = EOL
            THEN left(emit(Advance(emit(T, "InlineReferenceText")), "InlineReferenceClose"))
            ELSE IF ~T.inquote /\ T.l.mark = EOL
            THEN IF lp = EOL
                 THEN left(emit(T, "HyperlinkTargetURI"))
                 ELSE Advance(lexSpace(Advance(emit(T, "HyperlinkTargetURI"))))
            ELSE IF T.inquote /\ T.lastItem = "InlineReferenceOpen" /\ T.l.mark = EOL
            THEN Advance(lexSpace(Advance(emit(T, "InlineReferenceText"))))
            ELSE Advance(T)
    : T \in {T0}})

\* lexHyperlinkTarget after lexHyperlinkTargetName: the suffix, and the
\* block on the line of the target.
lexHyperlinkTargetSuffix(T0) ==
    Val({
        IF T.l.mark = ":"
        THEN Val({IF IsSpace(X.l.mark) /\ X.l.index < ByteLen(X.l.lines[X.l.line])
                  THEN [lexSpace(X) EXCEPT !.at = "block"]
                  ELSE [X EXCEPT !.at = "tail"]
                  : X \in {emit(Advance(T), "HyperlinkTargetSuffix")}})
        ELSE [T EXCEPT !.at = "tail"]
    : T \in {T0}})

\* The end of lexHyperlinkTarget: the block on the line after the target.
lexHyperlinkTargetTail(T0) ==
    Val({
        LET lp == lexerPeek(T.l, 1)
        IN  IF lp # EOL /\ IsSpace(lp)
            THEN [lexSpace(Advance(T)) EXCEPT !.at = "block2"]
            ELSE [Advance(T) EXCEPT !.at = "done"]
    : T \in {T0}})

InitTarget ==
    /\ BufIdle
    /\ pc = "target"
    /\ impl = "none"
    /\ sectionLevels = <<>>
    /\ nodes = <<>>
    /\ nodeTarget = 0
    /\ adds = <<>>
    /\ HandlersIdle
    /\ leveled = <<>>
    /\ tbuf = <<>>
    /\ \E lines \in TargetInputs : cursor = NewTarget(lines)

Called(call, arg, ret) ==
    /\ cursor' = [cursor EXCEPT !.call = call, !.arg = arg, !.ret = ret]
    /\ UNCHANGED <<bufVars, pc, regVars, parVars, leveled, tbuf>>

TargetAllowedRune ==
    /\ pc = "target"
    /\ cursor.call = "none"
    /\ \E r \in TestedRunes :
          Called("isReferenceNameSimpleAllowedRune", r, isReferenceNameSimpleAllowedRune(r))

TargetSimple ==
    /\ pc = "target"
    /\ cursor.call = "none"
    /\ Called("isReferenceNameSimple", "", isReferenceNameSimple(cursor.l, NameFrom))

TargetPhrase ==
    /\ pc = "target"
    /\ cursor.call = "none"
    /\ Called("isReferenceNamePhrase", "", isReferenceNamePhrase(cursor.l, NameFrom))

Lexing(T0) ==
    /\ \E T \in {T0} :
          /\ cursor' = T
          /\ pc' = IF T.at = "done" THEN "lexed" ELSE "lex"
    /\ UNCHANGED <<bufVars, regVars, parVars, leveled, tbuf>>

\* lexHyperlinkTarget has sent the start and the prefix of the target: the
\* cursor is on the first rune after the prefix.
TargetStart ==
    /\ pc = "target"
    /\ cursor.call = "none"
    /\ Lexing([cursor EXCEPT !.l = gotoLocation(cursor.l, NameFrom, 1),
                             !.start = <<NameFrom, 1>>,
                             !.lastItem = "HyperlinkTargetPrefix",
                             !.at = "name"])

TargetName ==
    /\ pc = "lex" /\ cursor.at = "name"
    /\ Lexing([lexHyperlinkTargetName(cursor) EXCEPT !.pass = 1 - cursor.pass])

TargetSuffix ==
    /\ pc = "lex" /\ cursor.at = "suffix"
    /\ Lexing(lexHyperlinkTargetSuffix(cursor))

TargetBlock ==
    /\ pc = "lex" /\ cursor.at \in {"block", "block2"}
    /\ Lexing([lexHyperlinkTargetBlock(cursor, IF cursor.at = "block" THEN "tail" ELSE "last")
                  EXCEPT !.pass = 1 - cursor.pass])

TargetTail ==
    /\ pc = "lex" /\ cursor.at \in {"tail", "last"}
    /\ Lexing(IF cursor.at = "tail" THEN lexHyperlinkTargetTail(cursor)
              ELSE [Advance(cursor) EXCEPT !.at = "done"])

\* lexHyperlinkTarget from the name on.
TargetLex == TargetName \/ TargetSuffix \/ TargetBlock \/ TargetTail

NextTarget ==
    \/ TargetAllowedRune \/ TargetSimple \/ TargetPhrase
    \/ TargetStart \/ TargetLex

\* lexHyperlinkTarget, once called, runs on: a pass of its loops that
\* changes the state of the lexer is taken.
FairTarget == InitTarget /\ [][NextTarget]_vars /\ WF_vars(TargetLex)

SpecTarget == InitTarget /\ [][NextTarget]_vars

(***************************************************************************)
(* The tokenBuffer of parser/buffer.go: a slice of initialCapacity items   *)
(* and the index of the current one.  The k-th item of the lexer is the    *)
(* number k, nil is 0.                                                     *)
(***************************************************************************)

initialCapacity == 100

\* Largest argument the harness passes to next and to peek.
MaxSlicePos == 2

\* The numbers of items the lexer has, the EOF item counted.
SliceStreams == {3, initialCapacity - 1, initialCapacity + 1}

\* lex.NextItem(): the next item, nil when the lexer has sent them all.
SliceNextItem(t) == IF t.sent < t.size THEN t.sent + 1 ELSE 0

SliceSent(t) == IF t.sent < t.size THEN t.sent + 1 ELSE t.sent

\* newTokenBuffer over a lexer with size items: make([]*tok.Item,
\* initialCapacity) is a slice of initialCapacity nil items.
newTokenBuffer(size) ==
    [buf |-> [x \in 0..(initialCapacity - 1) |-> 0], index |-> 0,
     size |-> size, sent |-> 0, st |-> "ok", op |-> "new", at |-> 0]

\* An index into t.buf: outside the slice it is a run-time panic.
InSlice(t, x) == 0 <= x /\ x <= initialCapacity - 1

\* tokenBuffer.next(pos)
RECURSIVE tokenBufferNext(_, _)
tokenBufferNext(t0, pos) ==
    Val({
        IF t.st # "ok" \/ pos = 0 THEN [t EXCEPT !.op = "next"]
        ELSE IF ~InSlice(t, t.index + 1)
        THEN [t EXCEPT !.index = t.index + 1, !.st = "panic", !.op = "next",
                       !.at = t.index + 1]
        ELSE IF t.buf[t.index + 1] = 0
        THEN tokenBufferNext([t EXCEPT !.index = t.index + 1,
                                       !.buf[t.index + 1] = SliceNextItem(t),
                                       !.sent = SliceSent(t),
                                       !.at = t.index + 1], pos - 1)
        ELSE tokenBufferNext([t EXCEPT !.index = t.index + 1, !.at = t.index + 1], pos - 1)
    : t \in {t0}})

\* tokenBuffer.peek(pos): the loop from i on.
RECURSIVE tokenBufferPeekFrom(_, _, _)
tokenBufferPeekFrom(t0, i, pos) ==
    Val({
        IF t.st # "ok" \/ i > pos THEN [t EXCEPT !.op = "peek"]
        ELSE IF ~InSlice(t, t.index + i)
        THEN [t EXCEPT !.st = "panic", !.op = "peek", !.at = t.index + i]
        ELSE IF t.buf[t.index + i] # 0
        THEN tokenBufferPeekFrom([t EXCEPT !.at = t.index + i], i + 1, pos)
        ELSE tokenBufferPeekFrom([t EXCEPT !.buf[t.index + i] = SliceNextItem(t),
                                           !.sent = SliceSent(t),
                                           !.at = t.index + i], i + 1, pos)
    : t \in {t0}})

tokenBufferPeek(t, pos) == tokenBufferPeekFrom(t, 1, pos)

\* tokenBuffer.backup()
tokenBufferBackup(t0) ==
    Val({
        [t EXCEPT !.index = IF t.index > 0 THEN t.index - 1 ELSE t.index,
                  !.op = "backup",
                  !.at = IF t.index > 0 THEN t.index - 1 ELSE t.index]
    : t \in {t0}})

InitSlice ==
    /\ BufIdle
    /\ pc = "slice"
    /\ impl = "none"
    /\ sectionLevels = <<>>
    /\ nodes = <<>>
    /\ nodeTarget = 0
    /\ adds = <<>>
    /\ HandlersIdle
    /\ leveled = <<>>
    /\ cursor = <<>>
    /\ \E size \in SliceStreams : tbuf = newTokenBuffer(size)

SliceApply(t0) ==
    /\ \E t \in {t0} :
          /\ tbuf' = t
          /\ pc' = IF t.st = "ok" THEN "slice" ELSE "panic"
    /\ UNCHANGED <<bufVars, regVars, parVars, leveled, cursor>>

\* The parser reads on and looks ahead up to the last item of the lexer, the
\* EOF, and not beyond it.
SliceNext ==
    /\ pc = "slice"
    /\ \E pos \in 1..MaxSlicePos :
          /\ tbuf.buf[tbuf.index] + pos <= tbuf.size
          /\ SliceApply(tokenBufferNext(tbuf, pos))

SlicePeek ==
    /\ pc = "slice"
    /\ \E pos \in 1..MaxSlicePos :
          /\ tbuf.buf[tbuf.index] + pos <= tbuf.size
          /\ SliceApply(tokenBufferPeek(tbuf, pos))

SliceBackup ==
    /\ pc = "slice"
    /\ tbuf.op # "backup"
    /\ SliceApply(tokenBufferBackup(tbuf))

NextSlice == SliceNext \/ SlicePeek \/ SliceBackup

SpecSlice == InitSlice /\ [][NextSlice]_vars

(***************************************************************************)
(* Properties of the section levels                                        *)
(***************************************************************************)

\* The runes of the first k sections handed to Add.
RunesUpTo(k) == {adds[j].rune : j \in 1..k}

\* The position at which the rune of the k-th section was first encountered.
FirstEncounter(k) == CHOOSE j \in 1..k :
    /\ adds[j].rune = adds[k].rune
    /\ \A i \in 1..(j - 1) : adds[i].rune # adds[k].rune

\* The level of the k-th section by first encounter: the number of distinct
\* adornments seen up to the first encounter of its own.
FirstEncounterLevel(k) == Cardinality(RunesUpTo(FirstEncounter(k)))

\* No rune has been used both with and without an overline.
OneStylePerRune ==
    \A i, j \in 1..Len(adds) :
        adds[i].rune = adds[j].rune => adds[i].overline = adds[j].overline

\* C8: levels are assigned by first encounter: a section whose adornment was
\* not registered before gets (number of distinct adornments so far) + 1, one
\* whose adornment is registered gets the level of the first encounter.
C8_LevelByFirstEncounter ==
    (Len(adds) > 0 /\ OneStylePerRune) =>
        \A k \in 1..Len(adds) : adds[k].level = FirstEncounterLevel(k)

\* C9: the registry is keyed by (rune, has_overline): a section is given a
\* level that an earlier section has only when an earlier section has both
\* its rune and its overline presence.
C9_KeyedByRuneAndOverline ==
    \A k \in 1..Len(adds) :
        (\E j \in 1..(k - 1) : adds[j].level = adds[k].level) =>
            \E j \in 1..(k - 1) :
                /\ adds[j].rune = adds[k].rune
                /\ adds[j].overline = adds[k].overline

\* The most recent section before node i with the level, 0 when none.
LastSectionByLevel(i, level) ==
    LET c == {j \in 1..(i - 1) :
                 nodes[j].type = "Section" /\ nodes[j].Level = level /\ nodes[j].parent # -1}
    IN  IF c = {} THEN 0 ELSE CHOOSE j \in c : \A m \in c : m <= j

\* C10: a registered section is appended to the document root when its level
\* is 1 and to the child list of the most recent section of level L-1 when
\* its level is L > 1; adornments '=', '-', '=' give levels 1, 2, 1 with the
\* third section under the root.
C10_AppendedByLevel ==
    impl = "tree" =>
        /\ pc # "panic"
        /\ \A i \in 1..Len(nodes) :
              nodes[i].type = "Section" =>
                  /\ nodes[i].Level >= 1
                  /\ nodes[i].Level = 1 => nodes[i].parent = 0
                  /\ nodes[i].Level > 1 =>
                         /\ nodes[i].parent # 0
                         /\ nodes[i].parent = LastSectionByLevel(i, nodes[i].Level - 1)
        /\ (Len(adds) = 3 /\ adds[1].rune = "=" /\ adds[2].rune = "-" /\ adds[3].rune = "=") =>
              /\ <<adds[1].level, adds[2].level, adds[3].level>> = <<1, 2, 1>>
              /\ nodes[3].parent = 0

\* C11: every Section node the registry has handled has level >= 1, for
\* every sequence of sections, two sections with the same rune and the same
\* title included.
C11_SectionLevelAtLeastOne ==
    \A k \in 1..Len(adds) : adds[k].level >= 1

(***************************************************************************)
(* Properties of the token buffer                                          *)
(***************************************************************************)

\* The k-th token the lexer emits (nil past the end of the stream).
StreamItem(k) == IF 1 <= k /\ k <= Len(input) THEN input[k] ELSE Nil

BackSlots == 1..zed
ForwardSlots == 1..(BufLen - 1 - zed)

\* Number of forward slots that hold a token.
FilledForward(t) == Cardinality({i \in ForwardSlots : t[zed + i] # Nil})

\* C4: after k calls of next(1) on a fresh parser, with no peek or backup in
\* between, the current slot holds the k-th token of the lexer, slot zed-i the
\* (k-i)-th for every i < k that fits, and every other slot is empty.
C4_NextInOrder ==
    (pc = "buf" /\ onlyNext /\ nNext >= 1) =>
        /\ token[zed] = StreamItem(nNext)
        /\ \A i \in BackSlots :
              token[zed - i] = IF i < nNext THEN StreamItem(nNext - i) ELSE Nil
        /\ \A i \in ForwardSlots : token[zed + i] = Nil
        /\ lexpos = IF nNext <= Len(input) THEN nNext ELSE Len(input)

C4_Witness ==
    /\ pc = "buf" /\ onlyNext /\ nNext = zed + 2
    /\ token[zed] # Nil /\ token[0] # Nil
    /\ token[0].Line = 2 /\ token[zed].Line = zed + 2

\* C5: peek(n), 1 <= n <= 4, consumes nothing: the current slot and the back
\* slots are unchanged, a forward slot that is filled is kept and costs no
\* pull, every empty one among zed+1..zed+n costs one pull, the item returned
\* is the one in slot zed+n, and the next(1) calls that follow return the
\* peeked tokens in order.  In a run of next and peek calls the forward slots
\* then hold the next n tokens of the lexer in emission order.
C5_PeekConsumesNothing ==
    pc = "buf" =>
        /\ \A n \in 1..4 :
            LET p == peek(Cur, n)
                empty == {i \in 1..n : token[zed + i] = Nil}
                base == lexpos - FilledForward(token)
            IN  /\ p.st = "ok"
                /\ \A x \in 0..zed : p.token[x] = token[x]
                /\ \A i \in ForwardSlots : token[zed + i] # Nil => p.token[zed + i] = token[zed + i]
                /\ \A i \in ForwardSlots : i > n => p.token[zed + i] = token[zed + i]
                /\ p.lexpos <= lexpos + Cardinality(empty)
                /\ (lexpos + Cardinality(empty) <= Len(input)) =>
                       p.lexpos = lexpos + Cardinality(empty)
                /\ \A j \in 1..n : next(p, j).token[zed] = p.token[zed + j]
                /\ \A j \in 1..n : next(p, j).lexpos = p.lexpos
                /\ nBackup = 0 => \A i \in 1..n : p.token[zed + i] = StreamItem(base + i)
        /\ last.op = "peek" =>
            /\ last.ret = token[zed + last.arg]
            /\ token[zed] = last.zed0

C5_Witness ==
    /\ pc = "buf" /\ last.op = "peek" /\ last.arg = 4
    /\ token[zed] # Nil /\ token[zed + 4] # Nil
    /\ token[zed + 4].Line = token[zed].Line + 4
    /\ lexpos = last.lp0 + 2

\* C6: peekBack(pos) returns the token consumed pos positions before the
\* current one for 1 <= pos <= 3, and any pos > 3 panics instead of returning
\* a token.
C6_PeekBackBeyondThreePanics ==
    last.op = "peekBack" =>
        /\ (last.arg <= 3 /\ onlyNext) => last.ret = StreamItem(nNext - last.arg)
        /\ (last.arg <= 3) => pc = "buf"
        /\ (last.arg > 3) => pc = "panic"

\* C7: backup() undoes one next(1) for the current token: after next(1) and
\* backup() the current slot holds what it held before, and the next(1) that
\* follows returns what the first one returned, taking nothing from the lexer.
C7_BackupUndoesNext ==
    pc = "buf" =>
        /\ LET b1 == next(Cur, 1)
               b2 == backup(b1)
               b3 == next(b2, 1)
           IN  /\ b2.st = "ok"
               /\ b2.token[zed] = token[zed]
               /\ b2.token[zed + 1] = b1.token[zed]
               /\ b3.token[zed] = b1.token[zed]
               /\ b3.lexpos = b2.lexpos
        /\ (last.op = "backup" /\ last.zed0 # Nil) =>
               /\ token[zed + 1] = last.zed0
               /\ next(Cur, 1).token[zed] = last.zed0
               /\ next(Cur, 1).lexpos = lexpos
               /\ lexpos = last.lp0

C7_Witness ==
    /\ pc = "buf" /\ last.op = "backup"
    /\ last.zed0 # Nil /\ token[zed] # Nil
    /\ token[zed + 1] = last.zed0
    /\ token[zed + 1].Line = token[zed].Line + 1

(***************************************************************************)
(* Properties of the parser run                                            *)
(***************************************************************************)

\* The run is over: parse() returned, or the process ended in a panic or in
\* os.Exit.
Over == pc \in {"done", "panic", "exit"}

\* C1: Parse terminates for every input.  For every finite token stream that
\* ends in EOF the main loop and every handler loop it enters eventually
\* return, whatever follows an overline and its Title: under fair scheduling
\* of the parser's steps every run is eventually over.
C1_ParseTerminates == <>Over

\* C2: the parser never aborts on malformed input.  No handler dereferences
\* an empty buffer slot, builds a section from a missing title or underline,
\* or exits the process: the run never ends in a panic or in os.Exit.
C2_NeverAborts == pc \notin {"panic", "exit"}

\* The node is in a list of the tree: its chain of parents ends at the root.
RECURSIVE InTree(_)
InTree(n) ==
    IF nodes[n].parent = 0 THEN TRUE
    ELSE IF nodes[n].parent = -1 THEN FALSE
    ELSE InTree(nodes[n].parent)

\* The SystemMessage nodes reachable in the node tree.
TreeMessages == {n \in 1..Len(nodes) : nodes[n].type = "SystemMessage" /\ InTree(n)}

\* C3: after parsing a token stream, the number of SystemMessage nodes in
\* the flat Messages list equals the number of SystemMessage nodes reachable
\* in the node tree: every diagnostic registered in Messages is also in a
\* node list of the tree, and vice versa.
C3_MessagesMatchTree ==
    pc = "done" => /\ Len(Messages) = Cardinality(TreeMessages)
                   /\ \A k \in 1..Len(Messages) : Messages[k] \in TreeMessages

(***************************************************************************)
(* Properties of the section handler                                       *)
(***************************************************************************)

\* The system messages of the type that the step has made.
NewMessages(type) ==
    {m \in (Len(nodes) + 1)..Len(nodes') :
        nodes'[m].type = "SystemMessage" /\ nodes'[m].msg = type}

\* C12: when the registry rejects a section with TitleLevelInconsistent the
\* section is not inserted into the registry and not appended to the tree,
\* the diagnostic is appended to the child list of the most recently
\* successful section, and that section becomes the append target.
C12_RejectedSection ==
    [][\A m \in NewMessages("severeTitleLevelInconsistent") :
          /\ nodes'[m - 1].type = "Section"
          /\ nodes'[m - 1].parent = -1
          /\ nodes'[m - 1].Level = 0
          /\ sectionLevels' = sectionLevels
          /\ lastSectionNode' = lastSectionNode
          /\ lastSectionNode # 0
          /\ nodes'[m].parent = lastSectionNode
          /\ nodeTarget' = lastSectionNode]_vars

\* C13: when the overline and the underline of a section do not match, the
\* mismatch diagnostic is emitted and the Section node is still constructed
\* and appended to the tree with its title, overline and underline.
C13_MismatchKeepsSection ==
    [][\A m \in NewMessages("severeOverlineUnderlineMismatch") :
          \E n \in (Len(nodes) + 1)..Len(nodes') :
              /\ nodes'[n].type = "Section"
              /\ nodes'[n].OverLine
              /\ nodes'[n].Title # ""
              /\ nodes'[n].Rune # ""
              /\ nodes'[n].parent # -1]_vars

\* The first rune of an adornment.
AdornRune(item) == SubSeq(item.Text, 1, 1)

\* The section handler is at the underline of an overlined section.
AtUnderline ==
    /\ pc = "run"
    /\ stack # <<>>
    /\ Top.loop = "section"
    /\ token[zed].Type = "SectionAdornment"

\* C14: the mismatch diagnostic is emitted for an overlined section exactly
\* when the rune of the overline differs from the rune of the underline; an
\* overline and an underline of the same rune and of different lengths do not
\* produce it.
C14_MismatchIffRunesDiffer ==
    [][AtUnderline =>
          (NewMessages("severeOverlineUnderlineMismatch") # {}
              <=> AdornRune(Top.over) # AdornRune(token[zed]))]_vars

\* The larger of two lengths.
Max(a, b) == IF a >= b THEN a ELSE b

\* The Section nodes the registry accepted.
Sections == {n \in 1..Len(nodes) : nodes[n].type = "Section" /\ nodes[n].Level >= 1}

\* The section has a short-overline or short-underline warning among its
\* own children.
HasLengthWarning(n) ==
    \E m \in 1..Len(nodes) :
        /\ nodes[m].type = "SystemMessage"
        /\ nodes[m].parent = n
        /\ nodes[m].msg \in {"warningShortOverline", "warningShortUnderline"}

\* The title with its indent fits under the longer adornment.
TitleFits(n) ==
    nodes[n].TitleLength + nodes[n].IndentLength
        <= Max(nodes[n].OverLength, nodes[n].UnderLength)

\* C15: for every Section node that is constructed, either title.length +
\* title.indent_length <= max(overline.length, underline.length), or a
\* short-overline / short-underline warning is among the section's children.
C15_FitsOrWarned ==
    pc \in {"run", "done"} => \A n \in Sections : TitleFits(n) \/ HasLengthWarning(n)

\* Sections with and without overline whose titles do not fit and that carry
\* the warning, and one whose title fits and that carries none.
C15_Witness ==
    /\ pc = "done"
    /\ \E n \in Sections : ~TitleFits(n) /\ HasLengthWarning(n) /\ nodes[n].OverLine
    /\ \E n \in Sections : ~TitleFits(n) /\ HasLengthWarning(n) /\ ~nodes[n].OverLine
    /\ \E n \in Sections : TitleFits(n) /\ ~HasLengthWarning(n)

\* The section has a short-underline warning among its children.
HasShortUnderline(n) ==
    \E m \in 1..Len(nodes) :
        /\ nodes[m].type = "SystemMessage"
        /\ nodes[m].parent = n
        /\ nodes[m].msg = "warningShortUnderline"

\* C16: the short-underline warning is appended to a section without
\* overline only when the underline is shorter than the title; an underline
\* as long as the title or longer gets no such warning.
C16_ShortUnderlineOnlyWhenShorter ==
    \A n \in Sections :
        (~nodes[n].OverLine /\ HasShortUnderline(n)) =>
            nodes[n].UnderLength < nodes[n].TitleLength

(***************************************************************************)
(* Properties of the system messages                                       *)
(***************************************************************************)

Children(s) == {k \in 1..Len(nodes) : nodes[k].parent = s}

SystemMessages == {s \in 1..Len(nodes) : nodes[s].type = "SystemMessage"}

\* The diagnostics for which systemMessage reconstructs the source lines.
LiteralTypes ==
    {"warningShortOverline", "severeOverlineUnderlineMismatch",
     "warningShortUnderline", "severeUnexpectedSectionTitle",
     "errorInvalidSectionOrTransitionMarker", "severeIncompleteSectionTitle",
     "severeMissingMatchingUnderlineForOverline",
     "severeUnexpectedSectionTitleOrTransition", "severeTitleLevelInconsistent"}

\* C18: every SystemMessage node has a Text node with the message as its
\* first child, and a LiteralBlock as its second child exactly when the
\* source lines of the diagnostic were reconstructed; there is no empty
\* LiteralBlock and no other child.
C18_MessageChildren ==
    \A s \in SystemMessages :
        /\ \E k \in Children(s) :
              nodes[k].ord = 1 /\ nodes[k].type = "Text" /\ nodes[k].Text = nodes[s].msg
        /\ \A k \in Children(s) :
              nodes[k].ord = 1 \/ (nodes[k].ord = 2 /\ nodes[k].type = "LiteralBlock"
                                      /\ nodes[k].Text # "")
        /\ (\E k \in Children(s) : nodes[k].type = "LiteralBlock")
              <=> nodes[s].msg \in LiteralTypes

(***************************************************************************)
(* Properties of the re-tagged section source                              *)
(***************************************************************************)

\* The diagnostics after which the section source is parsed again as text.
RetagTypes ==
    {"infoOverlineTooShortForTitle", "infoUnderlineTooShortForTitle",
     "infoUnexpectedTitleOverlineOrTransition"}

\* The buffer t holds a re-tagged Text token one slot ahead of the current
\* slot: the token of several source lines, after one backup().
Rewound(t) ==
    /\ t[zed + 1] # Nil
    /\ t[zed + 1].Type = "Text"
    /\ Contains(t[zed + 1].Text, "\n")

\* The step makes one of the three diagnostics.
Retagging == \E type \in RetagTypes : NewMessages(type) # {}

\* The step makes a Paragraph whose Text is the re-tagged token and which
\* follows the latest diagnostic in the same list.
ParagraphFollows ==
    \E p \in (Len(nodes) + 1)..Len(nodes') :
        /\ nodes'[p].type = "Paragraph"
        /\ \E x \in (Len(nodes) + 1)..Len(nodes') :
              /\ nodes'[x].type = "Text"
              /\ nodes'[x].parent = p
              /\ nodes'[x].Text = token[zed + 1].Text
        /\ Messages # <<>>
        /\ nodes'[p].parent = nodes'[Messages[Len(Messages)]].parent
        /\ nodes'[p].ord = nodes'[Messages[Len(Messages)]].ord + 1

\* The step makes a Paragraph out of the re-tagged token; where the latest
\* diagnostic is in the tree, the Paragraph is the next node of its list.
ParagraphAfterDiagnostic ==
    \E p \in (Len(nodes) + 1)..Len(nodes') :
        /\ nodes'[p].type = "Paragraph"
        /\ \E x \in (Len(nodes) + 1)..Len(nodes') :
              /\ nodes'[x].type = "Text"
              /\ nodes'[x].parent = p
              /\ nodes'[x].Text = token[zed + 1].Text
        /\ Messages # <<>>
        /\ nodes[Messages[Len(Messages)]].msg \in RetagTypes
        /\ nodes'[Messages[Len(Messages)]].parent >= 0 => ParagraphFollows

FromLine == cursor.lines[cursor.from[2]]

FromIndex == cursor.from[1]

\* next() started on the last rune of its line.
FromLastRune ==
    /\ FromIndex \in RuneStarts(FromLine)
    /\ FromIndex + MarkWidth(FromLine, FromIndex) = ByteLen(FromLine)

\* next() started at the end of its line.
FromEndOfLine == FromIndex = ByteLen(FromLine)

\* C20: next() from the last rune of a line moves to the end of that line
\* and returns EOL with width 0, the line number unchanged; from the end of
\* a line that is not the last it moves to index 0 of the next line and
\* returns the first rune of that line, or EOL with width 0 when that line
\* is blank; at the end of the last line it returns EOL and index and line
\* stay.
C20_NextAtLineEnd ==
    cursor.op = "next" =>
        /\ FromLastRune =>
              /\ cursor.index = ByteLen(FromLine)
              /\ cursor.mark = EOL /\ cursor.width = 0
              /\ lineNumber(cursor) = cursor.from[2]
        /\ (FromEndOfLine /\ cursor.from[2] < Len(cursor.lines)) =>
              /\ lineNumber(cursor) = cursor.from[2] + 1
              /\ cursor.index = 0
              /\ IF cursor.lines[cursor.line] = <<>>
                 THEN cursor.mark = EOL /\ cursor.width = 0
                 ELSE /\ cursor.mark = cursor.lines[cursor.line][1]
                      /\ cursor.width = RuneWidth(cursor.mark)
        /\ (FromEndOfLine /\ cursor.from[2] = Len(cursor.lines)) =>
              /\ cursor.mark = EOL
              /\ cursor.index = FromIndex
              /\ lineNumber(cursor) = cursor.from[2]

\* next() from the end of the first line of "title", "", ... has reached
\* the blank second line.
C20_Witness ==
    /\ cursor.op = "next"
    /\ FromEndOfLine
    /\ cursor.from[2] = 1
    /\ cursor.line = 2
    /\ cursor.lines[2] = <<>>
    /\ cursor.mark = EOL

\* next() gives what TestLexerNext expects in every row of lexerNextTests.
TestLexerNext ==
    \A tt \in lexerNextTests :
        (cursor.lines = tt.input /\ cursor.op = "next"
            /\ cursor.from = <<tt.start, tt.startLine>>) =>
                /\ cursor.index = tt.nIndex
                /\ cursor.mark = tt.nMark
                /\ cursor.width = tt.nWidth
                /\ lineNumber(cursor) = tt.nLine

\* backup() gives what TestLexerBackup expects in every row of
\* lexerBackupTests.
TestLexerBackup ==
    \A tt \in lexerBackupTests :
        (cursor.lines = tt.input /\ cursor.op = "backup" /\ cursor.arg = tt.pos
            /\ cursor.from = <<tt.start, tt.startLine>>) =>
                /\ cursor.index = tt.lIndex
                /\ cursor.mark = tt.lMark
                /\ cursor.width = tt.lWidth
                /\ lineNumber(cursor) = tt.lLine

\* next() started on a rune of more than one byte.
FromWideRune == FromIndex \in RuneStarts(FromLine) /\ MarkWidth(FromLine, FromIndex) > 1

\* C21: the cursor index counts runes: next() over a rune of two or three
\* bytes adds exactly 1 to the index, and backup(1) onto such a rune takes
\* exactly 1 from it; the width of the rune is reported as width.
C21_IndexCountsRunes ==
    /\ (cursor.op = "next" /\ FromWideRune) => cursor.index = FromIndex + 1
    /\ (cursor.op = "backup" /\ cursor.arg = 1 /\ cursor.line = cursor.from[2]
            /\ cursor.width > 1) =>
          /\ cursor.index = FromIndex - 1
          /\ cursor.width = RuneWidth(cursor.mark)

(***************************************************************************)
(* Properties of the tokens in the buffer                                  *)
(***************************************************************************)

\* The tokens as the lexer sent them.
LexerTokens == {input[k] : k \in 1..Len(input)}

\* A token that diagnostic synthesis has re-tagged: a Text on the line of
\* one of the three diagnostics.
Retagged(tk) ==
    /\ tk.Type = "Text"
    /\ \E m \in SystemMessages : nodes[m].msg \in RetagTypes /\ nodes[m].Line = tk.Line

\* C22: every token in the buffer is as the lexer sent it (type, text and
\* length unchanged), unless it is the token that diagnostic synthesis
\* re-tagged as Text after one of the three too-short or unexpected-overline
\* diagnostics.
C22_TokensUnchanged ==
    \A x \in 0..(BufLen - 1) :
        token[x] # Nil => (token[x] \in LexerTokens \/ Retagged(token[x]))

(***************************************************************************)
(* Properties of the nodes after a section                                 *)
(***************************************************************************)

\* The nodes the main loop makes out of body tokens.
BodyTypes ==
    {"Paragraph", "Comment", "BulletList", "DefinitionList", "BlockQuote", "Transition"}

RECURSIVE Descendant(_, _)
Descendant(n, s) ==
    IF nodes[n].parent <= 0 THEN FALSE
    ELSE nodes[n].parent = s \/ Descendant(nodes[n].parent, s)

\* Node n was made after section s and before the section handler ran
\* again: no section and no diagnostic of another section lies between.
AfterSection(n, s) ==
    /\ s < n
    /\ \A k \in (s + 1)..(n - 1) :
          /\ nodes[k].type # "Section"
          /\ nodes[k].type = "SystemMessage" => nodes[k].parent = s

\* C23: every body node made after a section was constructed and before the
\* next section adornment is a descendant of that section, the first
\* paragraph after the title and every later node alike.
C23_BodyUnderSection ==
    \A s \in Sections : \A n \in 1..Len(nodes) :
        (nodes[n].type \in BodyTypes /\ nodes[n].parent >= 0 /\ AfterSection(n, s))
            => Descendant(n, s)

(***************************************************************************)
(* Properties of the short adornments                                      *)
(***************************************************************************)

\* The token the step dispatches, the token before it and the token after
\* it (spaces skipped), as the section handler sees them.
Dispatched == next(Par, 1).token[zed]

DispatchedBack == next(Par, 1).token[zed - 1]

DispatchedFor == peekSkipItem(next(Par, 1), "Space")

\* C24: OverlineTooShortForTitle is made only for an overline of length < 3
\* that is shorter than the title after it, and UnderlineTooShortForTitle
\* only for an underline of length < 3 that is shorter than the title before
\* it; a short adornment that is longer than its title gets neither.
C24_TooShortOnlyWhenShorter ==
    [][/\ NewMessages("infoOverlineTooShortForTitle") # {} =>
             /\ Dispatched.Length < 3
             /\ Dispatched.Length < DispatchedFor.Length
       /\ NewMessages("infoUnderlineTooShortForTitle") # {} =>
             /\ Dispatched.Length < 3
             /\ Dispatched.Length < DispatchedBack.Length]_vars

\* C25: three characters is the minimum adornment length: every section
\* that is constructed has an underline of length >= 3 and, when it has an
\* overline, an overline of length >= 3, also when the adornment is as long
\* as a title of one or two characters.
C25_AdornmentAtLeastThree ==
    \A n \in Sections :
        /\ nodes[n].UnderLength >= 3
        /\ nodes[n].OverLine => nodes[n].OverLength >= 3

(***************************************************************************)
(* Properties of the tokens a section is made of                           *)
(***************************************************************************)

\* The sections the step has constructed.
NewSections ==
    {n \in (Len(nodes) + 1)..Len(nodes') :
        nodes'[n].type = "Section" /\ nodes'[n].Level >= 1}

\* The lexer sent a Title token with the line and the text of the title of
\* section n.
TitleFromTitleToken(n) ==
    \E k \in 1..Len(input) :
        /\ input[k].Type = "Title"
        /\ input[k].Line = nodes'[n].Line
        /\ input[k].Text = nodes'[n].Title

\* C26: every section that is constructed has an underline taken from a
\* SectionAdornment token (the current token when the section is built) and
\* a title taken from a Title token, never from a Space or another token,
\* with or without overline.
C26_SectionFromTitleAndAdornment ==
    [][\A n \in NewSections :
          /\ token'[zed] # Nil
          /\ token'[zed].Type = "SectionAdornment"
          /\ token'[zed].Length = nodes'[n].UnderLength
          /\ TitleFromTitleToken(n)]_vars

(***************************************************************************)
(* Properties of paragraph aggregation                                     *)
(***************************************************************************)

\* The texts of the tokens input[k..j] joined by newlines, and the sum of
\* their lengths.
RECURSIVE JoinTexts(_, _)
JoinTexts(k, j) ==
    IF k = j THEN input[k].Text ELSE JoinTexts(k, j - 1) \o "\n" \o input[j].Text

RECURSIVE SumLengths(_, _)
SumLengths(k, j) == IF k > j THEN 0 ELSE SumLengths(k, j - 1) + input[j].Length

\* The Text nodes of paragraphs that start at a Text token of the lexer.
ParagraphTexts ==
    {x \in 1..Len(nodes) :
        /\ nodes[x].type = "Text"
        /\ nodes[x].parent > 0
        /\ nodes[nodes[x].parent].type = "Paragraph"
        /\ \E k \in 1..Len(input) :
              input[k].Type = "Text" /\ input[k].Line = nodes[x].Line}

\* Node x holds the Text tokens input[k..j].
Aggregates(x, k, j) ==
    /\ input[k].Line = nodes[x].Line
    /\ \A i \in k..j : input[i].Type = "Text"
    /\ nodes[x].Text = JoinTexts(k, j)

\* C27: the Text node of a run of consecutive Text tokens has the texts of
\* the tokens joined by a newline as its text and the sum of the lengths of
\* the tokens as its length.
C27_JoinedTextSummedLength ==
    \A x \in ParagraphTexts :
        \E k \in 1..Len(input) : \E j \in k..Len(input) :
            Aggregates(x, k, j) /\ nodes[x].Length = SumLengths(k, j)

(***************************************************************************)
(* Properties of the end of a paragraph                                    *)
(***************************************************************************)

\* The step is an iteration of the paragraph loop that reads a BlankLine
\* (the token it reads is not merged into the text before it).
ParagraphMeetsBlankLine ==
    /\ pc = "run" /\ stack # <<>> /\ Top.loop = "paragraph"
    /\ Dispatched # Nil
    /\ Dispatched.Type = "BlankLine"

\* The tokens ahead of the current slot are the tokens the lexer sent from
\* its k-th token on, one after the other, and the lexer goes on after them.
AheadFrom(t, lp, k) ==
    \E m \in 0..(BufLen - 1 - zed) :
        /\ \A d \in 1..(BufLen - 1 - zed) :
              IF d <= m THEN k + d - 1 <= Len(input) /\ t[zed + d] = input[k + d - 1]
              ELSE t[zed + d] = Nil
        /\ lp = IF k + m - 1 <= Len(input) THEN k + m - 1 ELSE Len(input)

\* C28: when the paragraph loop meets a BlankLine it rewinds the buffer once
\* and ends: the BlankLine is the next token of the buffer, so the main loop
\* dispatches it next, and after it come the tokens that followed it in the
\* lexer stream, none dropped and none twice.
C28_BlankLineSeenAgain ==
    [][ParagraphMeetsBlankLine =>
          /\ pc' = "run"
          /\ stack' = Below
          /\ token'[zed + 1] = Dispatched
          /\ AheadFrom(token', lexpos', Dispatched.Line)]_vars

\* The paragraph loop has ended on a BlankLine: the loop is closed, the
\* current token is the Text before the BlankLine, and the BlankLine is the
\* next token of the buffer.
C28_Witness ==
    /\ pc = "run" /\ stack = <<>>
    /\ token[zed] # Nil /\ token[zed].Type = "Text"
    /\ token[zed + 1] # Nil /\ token[zed + 1].Type = "BlankLine"
    /\ token[zed + 1].Line = token[zed].Line + 1
    /\ \E p \in 1..Len(nodes) : nodes[p].type = "Paragraph"

(***************************************************************************)
(* Properties of the comment handler                                       *)
(***************************************************************************)

\* Number of newlines in a text.
RECURSIVE Newlines(_)
Newlines(s) ==
    IF s = "" THEN 0
    ELSE (IF SubSeq(s, 1, 1) = "\n" THEN 1 ELSE 0) + Newlines(SubSeq(s, 2, Len(s)))

Comments == {c \in 1..Len(nodes) : nodes[c].type = "Comment" /\ nodes[c].parent >= 0}

\* The token after the source of comment c: after the comment mark when the
\* comment has no text, else after the last of its text lines (every line
\* after the first is a Space and a Text).
AfterComment(c) ==
    LET k == nodes[c].Line + (IF nodes[c].Text = "" THEN 0 ELSE 2 * Newlines(nodes[c].Text)) + 1
    IN  IF k <= Len(input) THEN input[k] ELSE Nil

\* Comment c is not terminated by a blank line.
Unterminated(c) ==
    /\ AfterComment(c) # Nil
    /\ IF nodes[c].Text = ""
       THEN AfterComment(c).Type \notin {"Space", "BlankLine"}
       ELSE AfterComment(c).Type \notin {"BlankLine", "CommentMark", "EOF"}

\* The node directly after c in its list is the diagnostic.
WarningAfter(c) ==
    \E m \in SystemMessages :
        /\ nodes[m].msg = "warningExplicitMarkupWithUnIndent"
        /\ nodes[m].parent = nodes[c].parent
        /\ nodes[m].ord = nodes[c].ord + 1

\* C29: a comment that is not terminated by a blank line (its text, of one
\* line or of several, is followed by a token other than BlankLine,
\* CommentMark or EOF, or its mark is not followed by a Space) is appended
\* and the diagnostic ExplicitMarkupWithUnIndent is appended directly after
\* it.
C29_UnterminatedCommentWarned ==
    pc \in {"run", "done"} =>
        \A c \in Comments : Unterminated(c) => WarningAfter(c)

\* The step dispatches a CommentMark to the comment handler, from the main
\* loop or from the loop of a paragraph.
CommentDispatched ==
    /\ pc = "run"
    /\ stack = <<>> \/ Top.loop = "paragraph"
    /\ Dispatched # Nil
    /\ Dispatched.Type = "CommentMark"

\* The Comment nodes the step has appended to the append target.
NewComments ==
    {n \in (Len(nodes) + 1)..Len(nodes') :
        nodes'[n].type = "Comment" /\ nodes'[n].parent = nodeTarget}

\* The step leaves the loop over the lines of a comment block running.
CommentLoopOpen == stack' # <<>> /\ stack'[Len(stack')].loop = "comment"

\* C30: every CommentMark dispatched to the comment handler appends exactly
\* one Comment node to the append target and never a nil entry (which is a
\* run-time panic), whatever follows the mark: a BlankLine, a Space and a
\* Text, a Space and another token, or EOF.  The Comment of a block is
\* appended by the step that ends the loop over its lines.
C30_OneCommentPerMark ==
    [][/\ CommentDispatched =>
             /\ pc' # "panic"
             /\ Cardinality(NewComments) = 1 \/ CommentLoopOpen
       /\ (pc = "run" /\ stack # <<>> /\ Top.loop = "comment" /\ ~CommentLoopOpen) =>
             /\ pc' # "panic"
             /\ Cardinality(NewComments) = 1]_vars

\* The step of the main loop dispatches a Transition token.
TransitionDispatched ==
    /\ pc = "run"
    /\ stack = <<>>
    /\ Dispatched # Nil
    /\ Dispatched.Type = "Transition"

\* The Transition nodes the step has appended to the append target with the
\* text, the length and the line of the dispatched token.
NewTransitions ==
    {n \in (Len(nodes) + 1)..Len(nodes') :
        /\ nodes'[n].type = "Transition"
        /\ nodes'[n].parent = nodeTarget
        /\ nodes'[n].Text = Dispatched.Text
        /\ nodes'[n].Length = Len(Dispatched.Text)
        /\ nodes'[n].Line = Dispatched.Line}

\* C31: every Transition token dispatched by the main loop appends exactly
\* one Transition node, with the text, the length and the line of the token,
\* to the current append target.
C31_TransitionAppended ==
    [][TransitionDispatched => Cardinality(NewTransitions) = 1]_vars

(***************************************************************************)
(* Properties of peekSkip                                                  *)
(***************************************************************************)

\* The tokens ahead of the current slot, in the order next(1) is to return
\* them: those of the forward slots, then those the lexer has not sent yet.
AheadOf(tk, lp) ==
    SelectSeq([d \in 1..(BufLen - 1 - zed) |-> tk[zed + d]], LAMBDA t : t # Nil)
        \o SubSeq(input, lp + 1, Len(input))

TokensAhead == AheadOf(token, lexpos)

\* The first of them that is not a Space; Nil when there is none.
RECURSIVE FirstNotSpaceFrom(_, _)
FirstNotSpaceFrom(s, i) ==
    IF i > Len(s) THEN Nil
    ELSE IF s[i].Type # "Space" THEN s[i]
    ELSE FirstNotSpaceFrom(s, i + 1)

FirstNotSpace == FirstNotSpaceFrom(TokensAhead, 1)

\* The step is a call of peekSkip(Space) with a token other than Space ahead.
PeekSkipCalled == pc = "buf" /\ last'.op = "peekSkip" /\ FirstNotSpace # Nil

\* C32: peekSkip(kind) returns the first token ahead of the current slot whose
\* kind is not `kind`, and leaves the current slot and the back slots as they
\* were.
C32_PeekSkipFindsFirstOther ==
    [][PeekSkipCalled =>
          /\ pc' # "panic"
          /\ last'.ret = FirstNotSpace
          /\ \A x \in 0..zed : token'[x] = token[x]]_vars

(***************************************************************************)
(* Properties of the reference names of hyperlink targets                  *)
(***************************************************************************)

\* The categories of the letters and of the decimal digits.
LetterCats == {"Lu", "Ll", "Lt", "Lm", "Lo"}

DigitCats == {"Nd"}

\* C33: isReferenceNameSimpleAllowedRune accepts exactly the letters, upper
\* case as well as lower case, the digits and the marks _ - + . : and rejects
\* every other rune.
C33_AllowedRunes ==
    (pc = "target" /\ cursor.call = "isReferenceNameSimpleAllowedRune") =>
        (cursor.ret <=>
            \/ RuneCategory(cursor.arg) \in LetterCats \cup DigitCats
            \/ cursor.arg \in {"_", "-", "+", ".", ":"})

\* The text after the prefix of the target, on the line of the target.
NameText == SubSeq(cursor.l.lines[1], NameFrom + 1, Len(cursor.l.lines[1]))

\* The text holds an opening backtick and a later closing backtick that is
\* followed by ":" at once.
QuotedPhrase(s) ==
    \E i, j \in 1..Len(s) :
        /\ i < j
        /\ s[i] = "U+0060"
        /\ s[j] = "U+0060"
        /\ j + 1 <= Len(s)
        /\ s[j + 1] = ":"

\* C34: isReferenceNamePhrase returns true only for a text with an opening
\* backtick and a later closing backtick followed by ":"; a text that reaches
\* the end of the line without them is not a phrase reference, however many
\* words it has.
C34_PhraseNeedsClosingQuote ==
    (pc = "target" /\ cursor.call = "isReferenceNamePhrase" /\ cursor.ret) =>
        QuotedPhrase(NameText)

\* C38: the loops of lexHyperlinkTargetName and lexHyperlinkTargetBlock end
\* on every input, also when a back-quoted name or reference is not closed
\* before the end of the last line, where next() leaves the cursor on EOL.
C38_TargetLoopsEnd ==
    /\ (cursor.at = "name") ~> (cursor.at = "suffix")
    /\ (cursor.at \in {"block", "block2"}) ~> (cursor.at \in {"tail", "last"})

\* The overline of section n is a SectionAdornment that the lexer sent right
\* after a Title: the title of the section follows it, or a Space and the
\* title.
OverlineAfterTitle(n) ==
    \E k \in 2..(Len(input) - 2) :
        /\ input[k].Type = "SectionAdornment"
        /\ input[k - 1].Type = "Title"
        /\ \/ input[k + 1].Line = nodes[n].Line
           \/ input[k + 1].Type = "Space" /\ input[k + 2].Line = nodes[n].Line

\* The stream Title, SectionAdornment, Title, SectionAdornment.
TwoTitledSections ==
    /\ Len(input) = 5
    /\ \A k \in {1, 3} :
          /\ input[k].Type = "Title" /\ input[k].Text = "Tit"
          /\ input[k + 1].Type = "SectionAdornment" /\ input[k + 1].Text = "==="

\* C35: a SectionAdornment right after a Title is the underline of that
\* title also when the next token that is not a Space is another Title: it
\* is never the overline of a section, and the stream Title,
\* SectionAdornment, Title, SectionAdornment gives two sections without
\* overline, each with its own title.
C35_UnderlineOfPrecedingTitle ==
    /\ pc \in {"run", "done"} =>
          \A n \in Sections : nodes[n].OverLine => ~OverlineAfterTitle(n)
    /\ (pc = "done" /\ TwoTitledSections) =>
          /\ Cardinality(Sections) = 2
          /\ \A n \in Sections : ~nodes[n].OverLine
          /\ {nodes[n].Line : n \in Sections} = {1, 3}

(***************************************************************************)
(* Properties of backup                                                    *)
(***************************************************************************)

\* The step is a call of backup().
BackupCalled == pc = "buf" /\ last'.op = "backup"

\* C36: backup() drops no token that is not consumed: every token of a
\* forward slot, the last slot after peek(4) included, is in the buffer
\* after the call, and next(1) is to return the current token and then the
\* tokens ahead in the order they had.
C36_BackupKeepsTokensAhead ==
    [][BackupCalled =>
          /\ \A d \in 1..(BufLen - 1 - zed) :
                token[zed + d] # Nil =>
                    \E x \in 0..(BufLen - 1) : token'[x] = token[zed + d]
          /\ AheadOf(token', lexpos') =
                (IF token[zed] # Nil THEN <<token[zed]>> ELSE <<>>) \o TokensAhead]_vars

\* C37: peek and peekSkip(Space) read and write the slots 0..BufLen-1 only,
\* however many Space tokens the lexer sends after the current token: the
\* last slot a call goes to, zed + pos for peek(pos) and zed + count for the
\* last peek(count) of peekSkip, is a slot of the buffer.
C37_PeekStaysInBuffer ==
    [][/\ (pc = "buf" /\ last'.op = "peek") => zed + last'.arg <= BufLen - 1
       /\ (pc = "buf" /\ last'.op = "peekSkip") =>
              zed + peekSkipCount(Cur, "Space", 1) <= BufLen - 1]_vars

(***************************************************************************)
(* Properties of the tokenBuffer over a slice                              *)
(***************************************************************************)

\* C39: next and peek keep index and index+pos inside the slice that
\* newTokenBuffer has made, for token streams of every length, those with
\* more items than initialCapacity included: each index they go to is one of
\* 0..initialCapacity-1.
C39_IndexInsideBuffer ==
    (pc \in {"slice", "panic"} /\ tbuf.op \in {"next", "peek"}) =>
        /\ tbuf.index <= initialCapacity - 1
        /\ tbuf.at <= initialCapacity - 1

====
